---- MODULE Spec2Model ----
(***************************************************************************)
(* Model of the delta-protocol game server (package main): the shared      *)
(* GameState guarded by game.mu, the mutation operations initializeItems,  *)
(* addPlayer, removePlayer and handlePlayerMove, the goroutines gameLoop   *)
(* (with broadcastUpdates), wsHandler, reader and writer, the per-player   *)
(* sendChan, and the browser client's ws.onmessage handler.                *)
(*                                                                         *)
(* A critical section of game.mu (Lock, body, Unlock) is one step: the     *)
(* lock serializes the bodies, and the tasks interleave exactly where the  *)
(* code runs outside the lock.  The retry loops of addPlayer and           *)
(* initializeItems are also given draw by draw (AddPlayerLock,             *)
(* AddPlayerDraw, GameLoopInitializeItemsLock, GameLoopPlaceItem), with    *)
(* game.mu held between the steps; in the specifications that do not use   *)
(* these actions every state is a point at which game.mu is free.  The     *)
(* model follows src/unnamed/part_002; the onboarding snapshot of the      *)
(* earlier src/main.go, which shares the Items map with its payload, is    *)
(* given separately (SnapshotShared, MarshalStart, MarshalEnd).  The       *)
(* board, the item count and the channel capacity are scaled down from the *)
(* program's values.                                                       *)
(***************************************************************************)
EXTENDS Integers, Sequences, FiniteSets, TLC

\* Program constants (scaled down: 20, 15, 15 and 256 in the source).
BoardWidth == 2
BoardHeight == 2
NumItems == 2
ChanCap == 2

\* Bounds of the model.  Spec is the whole server; SpecWorld is the mutation
\* operations alone, in every order game.mu can serialize them.
MaxConns == 1          \* Spec: connections accepted over a run
MaxMoves == 2          \* Spec: "move" messages handled over a run
MaxResets == 1         \* Spec: resets run by readers over a run
MaxTicks == 1          \* Spec: ticks that follow a state-changing operation
WorldConns == 2        \* SpecWorld: connections accepted over a run
WorldMoves == 4        \* SpecWorld: "move" messages handled over a run
MailConns == 2         \* SpecMailbox: connections accepted over a run
MailTicks == 1         \* SpecMailbox: ticks that follow a state-changing operation
DeliveryConns == 1     \* SpecDelivery: connections accepted over a run
DeliveryTicks == 2     \* SpecDelivery: ticks that follow a state-changing operation
DeliveryMoves == 1     \* SpecDelivery: move messages handled over a run
CleanupConns == 2      \* SpecCleanup: connections accepted over a run
CleanupTicks == 1      \* SpecCleanup: ticks that follow a state-changing operation
DrainConns == 2        \* SpecDrain: connections accepted over a run
DrainTicks == 1        \* SpecDrain: ticks that follow a state-changing operation
PlaceConns == 3        \* SpecPlacement: connections accepted over a run
PlaceMoves == 1        \* SpecPlacement: "move" messages handled over a run
PlaceWelcomes == 1     \* SpecPlacement: connections whose handler goes on to its welcome
WorldResets == 2       \* SpecWorld: resets run by readers over a run
EndConns == 2          \* SpecEndgame: connections accepted over a run
EndMoves == 2          \* SpecEndgame: "move" messages handled during play
EndFrozenMoves == 1    \* SpecEndgame: further "move" messages handled while the game is over
EndTicks == 1          \* SpecEndgame: ticks that follow a state-changing operation
SharedConns == 2       \* SpecSharedItems: connections accepted over a run
SharedMoves == 1       \* SpecSharedItems: "move" messages handled over a run

MaxOf(a, b) == IF a > b THEN a ELSE b
Conns == 1..MaxOf(MaxOf(MaxConns, WorldConns), PlaceConns)
Directions == {"up", "down", "left", "right"}
\* directions a client may send: the four valid ones and an invalid one
SentDirections == Directions \cup {"jump"}

\* uuid.NewString(): one fresh id per accepted connection
PlayerID(c) == "p" \o ToString(c)
ConnOf(id) == CHOOSE c \in Conns : PlayerID(c) = id

Point(x, y) == [X |-> x, Y |-> y]
Cells == {Point(x, y) : x \in 0..(BoardWidth - 1), y \in 0..(BoardHeight - 1)}

\* fmt.Sprintf("%d,%d", pos.X, pos.Y)
ItemKey(pos) == ToString(pos.X) \o "," \o ToString(pos.Y)
\* client: item.pos.x + "," + item.pos.y
ClientItemKey(item) == ToString(item.Pos.X) \o "," \o ToString(item.Pos.Y)
\* "item_" + strconv.Itoa(i)
ItemID(i) == "item_" \o ToString(i)

---------------------------------------------------------------------------
\* Go maps as functions; a nil pointer / omitted JSON field as <<>>, a
\* present one as <<v>>.
EmptyMap == << >>
MapPut(m, k, v) == [x \in (DOMAIN m) \cup {k} |-> IF x = k THEN v ELSE m[x]]
MapDelete(m, k) == [x \in (DOMAIN m) \ {k} |-> m[x]]
Nil == << >>
Ptr(v) == << v >>

Range(s) == {s[i] : i \in DOMAIN s}
\* the orders in which a range loop may visit the keys of a map
Orders(S) == {s \in [1..Cardinality(S) -> S] : Range(s) = S}

\* resetPendingDeltas
EmptyDeltas ==
    [PlayersUpdated |-> EmptyMap,
     PlayersRemoved |-> << >>,
     ItemsAdded |-> << >>,
     ItemsRemoved |-> << >>,
     GameStatus |-> Nil]

\* NewPos with the lower-edge tests of "down" and "right" off by one
NewPos_OffByOne(pos, direction) ==
    CASE direction = "up" -> IF pos.Y > 0 THEN Point(pos.X, pos.Y - 1) ELSE pos
      [] direction = "down" ->
            IF pos.Y < BoardHeight THEN Point(pos.X, pos.Y + 1) ELSE pos
      [] direction = "left" -> IF pos.X > 0 THEN Point(pos.X - 1, pos.Y) ELSE pos
      [] direction = "right" ->
            IF pos.X < BoardWidth THEN Point(pos.X + 1, pos.Y) ELSE pos
      [] OTHER -> pos

\* the switch of handlePlayerMove: one step, clamped at the board's edges
NewPos(pos, direction) ==
    CASE direction = "up" -> IF pos.Y > 0 THEN Point(pos.X, pos.Y - 1) ELSE pos
      [] direction = "down" ->
            IF pos.Y < BoardHeight - 1 THEN Point(pos.X, pos.Y + 1) ELSE pos
      [] direction = "left" -> IF pos.X > 0 THEN Point(pos.X - 1, pos.Y) ELSE pos
      [] direction = "right" ->
            IF pos.X < BoardWidth - 1 THEN Point(pos.X + 1, pos.Y) ELSE pos
      [] OTHER -> pos

\* delta, ok := pendingDeltas.PlayersUpdated[id]; if !ok { delta = PlayerDelta{ID: id} }
DeltaFor(pd, id) ==
    IF id \in DOMAIN pd.PlayersUpdated
    THEN pd.PlayersUpdated[id]
    ELSE [ID |-> id, Pos |-> Nil, Score |-> Nil]

\* WithPos keeping the position an earlier move of the window recorded
WithPos_KeepFirst(pd, id, pos) ==
    IF DeltaFor(pd, id).Pos # Nil THEN pd
    ELSE [pd EXCEPT !.PlayersUpdated =
            MapPut(@, id, [DeltaFor(pd, id) EXCEPT !.Pos = Ptr(pos)])]

WithPos(pd, id, pos) ==
    [pd EXCEPT !.PlayersUpdated =
        MapPut(@, id, [DeltaFor(pd, id) EXCEPT !.Pos = Ptr(pos)])]

WithScore(pd, id, score) ==
    [pd EXCEPT !.PlayersUpdated =
        MapPut(@, id, [DeltaFor(pd, id) EXCEPT !.Score = Ptr(score)])]

\* the winner loop of handlePlayerMove over the map in the order `order`
RECURSIVE WinnersLoop(_, _, _, _, _)
WinnersLoop(ps, order, i, winnerScore, winners) ==
    IF i > Len(order) THEN winners
    ELSE LET p == ps[order[i]] IN
         IF ~p.IsActive THEN WinnersLoop(ps, order, i + 1, winnerScore, winners)
         ELSE IF p.Score > winnerScore
              THEN WinnersLoop(ps, order, i + 1, p.Score, << p.ID >>)
         ELSE IF p.Score = winnerScore
              THEN WinnersLoop(ps, order, i + 1, winnerScore, Append(winners, p.ID))
         ELSE WinnersLoop(ps, order, i + 1, winnerScore, winners)

\* Winners keeping only the first entity that reaches the maximum score
Winners_FirstOnly(ps, order) ==
    LET w == WinnersLoop(ps, order, 1, -1, << >>)
    IN IF Len(w) > 1 THEN << w[1] >> ELSE w

Winners(ps, order) == WinnersLoop(ps, order, 1, -1, << >>)

\* fmt.Sprintf("%v", winners) of a []string: "[a b c]"
RECURSIVE JoinSpace(_)
JoinSpace(s) ==
    IF Len(s) = 0 THEN ""
    ELSE IF Len(s) = 1 THEN s[1]
    ELSE s[1] \o " " \o JoinSpace(Tail(s))

SprintfV(winners) == "[" \o JoinSpace(winners) \o "]"

\* WinnerString never storing the winners
WinnerString_Never(old, winners) == old

\* if len(winners) > 0 { gs.WinnerID = fmt.Sprintf("%v", winners) }
WinnerString(old, winners) == IF Len(winners) > 0 THEN SprintfV(winners) ELSE old

\* GameStatusAfterInit creating no entry where the record has none
GameStatusAfterInit_Unset(status, gameOver, winnerID) ==
    IF status # Nil
    THEN Ptr([status[1] EXCEPT !.GameOver = FALSE, !.WinnerID = ""])
    ELSE Nil

\* lines 164-175 of initializeItems: the game-status entry of the record
GameStatusAfterInit(status, gameOver, winnerID) ==
    LET created == IF status = Nil /\ (gameOver \/ winnerID # "")
                   THEN Ptr([GameOver |-> FALSE, WinnerID |-> ""])
                   ELSE status
    IN IF created # Nil
       THEN Ptr([created[1] EXCEPT !.GameOver = FALSE, !.WinnerID = ""])
       ELSE Ptr([GameOver |-> FALSE, WinnerID |-> ""])

\* ItemCellFree without the test of the players' cells
ItemCellFree_IgnorePlayers(ps, batch, pos) == \A j \in DOMAIN batch : batch[j] # pos

\* ItemCellFree without the test of the batch placed so far
ItemCellFree_IgnoreBatch(ps, batch, pos) == \A id \in DOMAIN ps : ps[id].Pos # pos

\* the placement loop's test: the cell holds no item of this batch and no player
ItemCellFree(ps, batch, pos) ==
    /\ \A j \in DOMAIN batch : batch[j] # pos
    /\ \A id \in DOMAIN ps : ps[id].Pos # pos

\* the results the placement loop of initializeItems can end with:
\* item i-1 at s[i], each cell accepted by ItemCellFree when it was drawn
Placements(ps) ==
    {s \in [1..NumItems -> Cells] :
        \A i \in 1..NumItems : ItemCellFree(ps, SubSeq(s, 1, i - 1), s[i])}

NewItem(i, pos) == [ID |-> ItemID(i), Pos |-> pos]
NewItemsList(s) == [i \in 1..NumItems |-> NewItem(i - 1, s[i])]
NewItemsMap(s) ==
    [k \in {ItemKey(s[i]) : i \in 1..NumItems} |->
        LET i == CHOOSE j \in 1..NumItems : ItemKey(s[j]) = k IN NewItem(i - 1, s[i])]

\* ResetScores leaving every score as it was
ResetScores_Keep(ps) == ps

\* lines 177-188 of initializeItems
ResetScores(ps) ==
    [id \in DOMAIN ps |-> IF ps[id].IsActive THEN [ps[id] EXCEPT !.Score = 0] ELSE ps[id]]

ResetScoreDeltas(pd, ps) ==
    [pd EXCEPT !.PlayersUpdated =
        [id \in (DOMAIN @) \cup {i \in DOMAIN ps : ps[i].IsActive} |->
            IF id \in DOMAIN ps /\ ps[id].IsActive
            THEN [DeltaFor(pd, id) EXCEPT !.Score = Ptr(0)]
            ELSE @[id]]]

\* the record initializeItems starts from (line 132)
InitStartDeltas(pd) == EmptyDeltas

\* SpawnCellFree without the test of the Items map
SpawnCellFree_IgnoreItems(ps, items, pos) == \A id \in DOMAIN ps : ps[id].Pos # pos

\* SpawnCellFree without the test of the Players map
SpawnCellFree_IgnorePlayers(ps, items, pos) == ItemKey(pos) \notin DOMAIN items

\* the spawn loop's test of addPlayer: no player and no item on the cell
SpawnCellFree(ps, items, pos) ==
    /\ \A id \in DOMAIN ps : ps[id].Pos # pos
    /\ ItemKey(pos) \notin DOMAIN items

\* NewPlayer with the IsActive flag left false
NewPlayer_Inactive(id, pos) == [ID |-> id, Pos |-> pos, Score |-> 0, IsActive |-> FALSE]

\* lines 220-227 of addPlayer
NewPlayer(id, pos) == [ID |-> id, Pos |-> pos, Score |-> 0, IsActive |-> TRUE]

\* lines 232-238 of addPlayer
JoinDelta(pd, id, pos) ==
    [pd EXCEPT !.PlayersUpdated =
        MapPut(@, id, [ID |-> id, Pos |-> Ptr(pos), Score |-> Ptr(0)])]

\* LeaveDelta keeping the pending update of the removed id
LeaveDelta_KeepUpdate(pd, id) == [pd EXCEPT !.PlayersRemoved = Append(@, id)]

\* lines 251-254 of removePlayer
LeaveDelta(pd, id) ==
    [pd EXCEPT !.PlayersRemoved = Append(@, id),
               !.PlayersUpdated = MapDelete(@, id)]

\* lines 294-304 of handlePlayerMove
MovePlayers(ps, id, oldPos, newPos) ==
    IF oldPos # newPos THEN [ps EXCEPT ![id].Pos = newPos] ELSE ps

\* MoveDelta recording the position whether or not the entity moved
MoveDelta_Always(pd, id, oldPos, newPos) == WithPos(pd, id, newPos)

MoveDelta(pd, id, oldPos, newPos) ==
    IF oldPos # newPos THEN WithPos(pd, id, newPos) ELSE pd

\* line 307 of handlePlayerMove
ItemAt(items, pos) == ItemKey(pos) \in DOMAIN items

\* CollectPlayers adding 2 to the score
CollectPlayers_Double(ps, id) == [ps EXCEPT ![id].Score = @ + 2]

\* lines 308-319 of handlePlayerMove
CollectPlayers(ps, id) == [ps EXCEPT ![id].Score = @ + 1]

\* CollectDelta without the entry of ItemsRemoved
CollectDelta_NoKey(pd, id, score, key) == WithScore(pd, id, score)

CollectDelta(pd, id, score, key) ==
    [WithScore(pd, id, score) EXCEPT !.ItemsRemoved = Append(@, key)]

\* lines 340-345 of handlePlayerMove
GameOverDelta(pd, winnerID) ==
    [pd EXCEPT !.GameStatus = Ptr([GameOver |-> TRUE, WinnerID |-> winnerID])]

\* IsEmptyDeltas finding every record non-empty
IsEmptyDeltas_Never(pd) == FALSE

\* lines 461-465 of broadcastUpdates
IsEmptyDeltas(pd) ==
    /\ DOMAIN pd.PlayersUpdated = {}
    /\ Len(pd.PlayersRemoved) = 0
    /\ Len(pd.ItemsAdded) = 0
    /\ Len(pd.ItemsRemoved) = 0
    /\ pd.GameStatus = Nil

---------------------------------------------------------------------------
\* Wire messages (json.Marshal of ServerMessage) and the client's handler.
\* An omitempty field that is omitted and an empty collection are the same
\* to the client; a string omitted by omitempty arrives as undefined (Nil).
OmitEmpty(str) == IF str = "" THEN Nil ELSE Ptr(str)

MarshalPlayer(p) == [id |-> p.ID, pos |-> p.Pos, score |-> p.Score]
MarshalItem(it) == [id |-> it.ID, pos |-> it.Pos]
MarshalPlayerDelta(d) == [id |-> d.ID, pos |-> d.Pos, score |-> d.Score]
MarshalStatus(st) ==
    IF st = Nil THEN Nil
    ELSE Ptr([gameOver |-> st[1].GameOver, winnerId |-> OmitEmpty(st[1].WinnerID)])

WelcomeMsg(id) == [type |-> "welcome", payload |-> [playerId |-> id]]

\* lines 424-443 of wsHandler: the copy taken under the lock
FullStatePayload(ps, items, gameOver, winnerID) ==
    [players |-> [id \in {i \in DOMAIN ps : ps[i].IsActive} |-> MarshalPlayer(ps[id])],
     items |-> [k \in DOMAIN items |-> MarshalItem(items[k])],
     boardWidth |-> BoardWidth,
     boardHeight |-> BoardHeight,
     gameOver |-> gameOver,
     winnerId |-> OmitEmpty(winnerID)]

FullStateMsg(payload) == [type |-> "full_state", payload |-> payload]

DeltaMsg(pd) ==
    [type |-> "delta_update",
     payload |->
        [playersUpdated |->
            [id \in DOMAIN pd.PlayersUpdated |-> MarshalPlayerDelta(pd.PlayersUpdated[id])],
         playersRemoved |-> pd.PlayersRemoved,
         itemsAdded |-> [i \in DOMAIN pd.ItemsAdded |-> MarshalItem(pd.ItemsAdded[i])],
         itemsRemoved |-> pd.ItemsRemoved,
         gameStatus |-> MarshalStatus(pd.GameStatus)]]

\* let localGameState = {...}
InitialView ==
    [players |-> EmptyMap, items |-> EmptyMap, gameOver |-> FALSE, winnerId |-> Nil]

\* client, playersUpdated loop body
ClientPlayer(players, id, pDelta) ==
    LET base == IF id \in DOMAIN players
                THEN players[id]
                ELSE [id |-> id, score |-> 0,
                      pos |-> IF pDelta.pos # Nil THEN pDelta.pos[1] ELSE Point(0, 0)]
        withPos == IF pDelta.pos # Nil THEN [base EXCEPT !.pos = pDelta.pos[1]] ELSE base
    IN IF pDelta.score # Nil THEN [withPos EXCEPT !.score = pDelta.score[1]] ELSE withPos

ClientPlayersUpdated(players, upd) ==
    [id \in (DOMAIN players) \cup (DOMAIN upd) |->
        IF id \in DOMAIN upd THEN ClientPlayer(players, id, upd[id]) ELSE players[id]]

ClientPlayersRemoved(players, removedIds) ==
    [id \in (DOMAIN players) \ Range(removedIds) |-> players[id]]

\* ClientItemsAdded adding the listed items to the set the client had
ClientItemsAdded_Merge(items, added) ==
    [k \in (DOMAIN items) \cup {ClientItemKey([Pos |-> added[i].pos]) : i \in DOMAIN added} |->
        IF \E i \in DOMAIN added : ClientItemKey([Pos |-> added[i].pos]) = k
        THEN added[CHOOSE i \in DOMAIN added : ClientItemKey([Pos |-> added[i].pos]) = k]
        ELSE items[k]]

\* client, itemsAdded: a present list replaces the whole item set
ClientItemsAdded(items, added) ==
    IF Len(added) > 0
    THEN [k \in {ClientItemKey([Pos |-> added[i].pos]) : i \in DOMAIN added} |->
            added[CHOOSE i \in DOMAIN added :
                    ClientItemKey([Pos |-> added[i].pos]) = k
                    /\ \A j \in DOMAIN added :
                          ClientItemKey([Pos |-> added[j].pos]) = k => j <= i]]
    ELSE items

ClientItemsRemoved(items, keys) == [k \in (DOMAIN items) \ Range(keys) |-> items[k]]

\* ws.onmessage
ApplyMessage(v, msg) ==
    CASE msg.type = "welcome" -> v
      [] msg.type = "full_state" ->
            [players |-> msg.payload.players,
             items |-> msg.payload.items,
             gameOver |-> msg.payload.gameOver,
             winnerId |-> msg.payload.winnerId]
      [] msg.type = "delta_update" ->
            LET d == msg.payload IN
            [players |-> ClientPlayersRemoved(
                            ClientPlayersUpdated(v.players, d.playersUpdated),
                            d.playersRemoved),
             items |-> ClientItemsRemoved(ClientItemsAdded(v.items, d.itemsAdded),
                                          d.itemsRemoved),
             gameOver |-> IF d.gameStatus # Nil THEN d.gameStatus[1].gameOver
                          ELSE v.gameOver,
             winnerId |-> IF d.gameStatus # Nil THEN d.gameStatus[1].winnerId
                          ELSE v.winnerId]

---------------------------------------------------------------------------
VARIABLES
    allocated,          \* gameLoop has made the Players and Items maps and the record
    Players,            \* game.Players: id -> Player
    Items,              \* game.Items: key -> Item
    GameOver,           \* game.GameOver
    WinnerID,           \* game.WinnerID
    pendingDeltas,      \* game.pendingDeltas
    detached,           \* Player structs deleted from the map, still held by their tasks
    gl,                 \* gameLoop: position
    deltasToSend,       \* broadcastUpdates: the swapped-out record
    activePlayerChans,  \* broadcastUpdates: the channels still to send to
    tickDropped,        \* broadcastUpdates: the recipients this tick's send found full
    ws,                 \* wsHandler of each connection: position
    fullStatePayload,   \* wsHandler: the snapshot copied under the lock
    rd,                 \* reader of each connection: position
    wr,                 \* writer of each connection: position
    connOpen,           \* the websocket connection is open
    sendChan,           \* player.sendChan: the buffered messages
    chanClosed,         \* player.sendChan has been closed
    view,               \* the client's localGameState
    enqueued,           \* the kinds of the messages enqueued onto each sendChan, in order
    accepted,           \* the messages each sendChan accepted, in order, with their tick
    written,            \* the messages each writer wrote to its connection, in order
    dropped,            \* an enqueue onto this sendChan found it full
    panics,             \* the run-time panics raised so far
    crashed,            \* a panic outside an HTTP handler ended the process
    unlockedAccess,     \* World State fields accessed without holding game.mu
    mu,                 \* game.mu: the task that holds it, Nil when it is free
    batch,              \* initializeItems: the positions placed so far (currentItems)
    mutated,            \* a state-changing operation completed since the last flush
    last,               \* the operation of the latest step and the state it ran in
    nMoves, nResets, nTicks

worldVars == <<allocated, Players, Items, GameOver, WinnerID, pendingDeltas, detached>>
loopVars == <<gl, deltasToSend, activePlayerChans, tickDropped>>
connVars == <<ws, fullStatePayload, rd, wr, connOpen>>
chanVars == <<sendChan, chanClosed, enqueued, accepted, dropped>>
auxVars == <<panics, crashed, unlockedAccess>>
countVars == <<nMoves, nResets, nTicks>>
clientVars == <<view, written>>
lockVars == <<mu, batch>>
vars == <<worldVars, loopVars, connVars, chanVars, clientVars, auxVars, lockVars, mutated,
          last, countVars>>

GameLoopTask == <<"gameLoop", 0>>
HandlerTask(c) == <<"wsHandler", c>>

\* World State without the Change Record
Entities == <<Players, Items, GameOver, WinnerID>>

\* the World State fields as one value
World ==
    [Players |-> Players, Items |-> Items, GameOver |-> GameOver,
     WinnerID |-> WinnerID, pendingDeltas |-> pendingDeltas]

NoOp == [op |-> "none", id |-> "", direction |-> "", before |-> << >>, mutated |-> FALSE]
Op(name, id, dir) ==
    [op |-> name, id |-> id, direction |-> dir, before |-> Ptr(World),
     mutated |-> mutated]

Init ==
    /\ allocated = FALSE
    /\ Players = EmptyMap
    /\ Items = EmptyMap
    /\ GameOver = FALSE
    /\ WinnerID = ""
    /\ pendingDeltas = EmptyDeltas
    /\ detached = EmptyMap
    /\ gl = "start"
    /\ deltasToSend = EmptyDeltas
    /\ activePlayerChans = << >>
    /\ tickDropped = {}
    /\ ws = [c \in Conns |-> "none"]
    /\ fullStatePayload = [c \in Conns |-> Nil]
    /\ rd = [c \in Conns |-> "none"]
    /\ wr = [c \in Conns |-> "none"]
    /\ connOpen = [c \in Conns |-> FALSE]
    /\ sendChan = [c \in Conns |-> << >>]
    /\ chanClosed = [c \in Conns |-> FALSE]
    /\ view = [c \in Conns |-> InitialView]
    /\ enqueued = [c \in Conns |-> << >>]
    /\ accepted = [c \in Conns |-> << >>]
    /\ written = [c \in Conns |-> << >>]
    /\ dropped = [c \in Conns |-> FALSE]
    /\ panics = {}
    /\ crashed = FALSE
    /\ unlockedAccess = {}
    /\ mu = Nil
    /\ batch = << >>
    /\ mutated = FALSE
    /\ last = NoOp
    /\ nMoves = 0
    /\ nResets = 0
    /\ nTicks = 0

\* a panic in a goroutine of the program ends the process
Running == ~crashed

\* a message the channel accepted, with the number of the flush that
\* produced it (0 for the messages of wsHandler)
Accepted(msg) == [msg |-> msg, tick |-> IF msg.type = "delta_update" THEN nTicks ELSE 0]

\* select { case ch <- msg: default: } on an open channel: a full buffer
\* drops the message
Offer(c, msg) ==
    /\ IF Len(sendChan[c]) < ChanCap
       THEN /\ sendChan' = [sendChan EXCEPT ![c] = Append(@, msg)]
            /\ enqueued' = [enqueued EXCEPT ![c] = Append(@, msg.type)]
            /\ accepted' = [accepted EXCEPT ![c] = Append(@, Accepted(msg))]
            /\ UNCHANGED dropped
       ELSE /\ dropped' = [dropped EXCEPT ![c] = TRUE]
            /\ UNCHANGED <<sendChan, enqueued, accepted>>
    /\ UNCHANGED chanClosed

\* a send on a closed channel panics, also inside a select with a default
Panic(task) == panics' = panics \cup {[task |-> task, err |-> "send on closed channel"]}

---------------------------------------------------------------------------
\* The operations on World State as functions of the state w they run in.

\* initializeItems, lines 132-189, with the placement loop ending in s
InitializeItemsResult(w, s) ==
    LET start == InitStartDeltas(w.pendingDeltas)
        added == [start EXCEPT !.ItemsAdded = NewItemsList(s)]
        status == [added EXCEPT !.GameStatus = GameStatusAfterInit(@, FALSE, "")]
    IN [Players |-> ResetScores(w.Players),
        Items |-> NewItemsMap(s),
        GameOver |-> FALSE,
        WinnerID |-> "",
        pendingDeltas |-> ResetScoreDeltas(status, w.Players)]

\* addPlayer, lines 220-238, with the spawn loop ending in pos
AddPlayerResult(w, id, pos) ==
    [w EXCEPT !.Players = MapPut(@, id, NewPlayer(id, pos)),
              !.pendingDeltas = JoinDelta(@, id, pos)]

\* removePlayer, lines 247-249: the call finds the player and closes its channel
ClosesSendChan(w, id) == id \in DOMAIN w.Players

\* RemovePlayerResult leaving the entity in the Players map
RemovePlayerResult_KeepEntity(w, id) ==
    IF id \in DOMAIN w.Players
    THEN [w EXCEPT !.pendingDeltas = LeaveDelta(@, id)]
    ELSE w

\* RemovePlayerResult clearing the winner designation when a winner leaves
RemovePlayerResult_ClearsWinner(w, id) ==
    IF id \in DOMAIN w.Players
    THEN [w EXCEPT !.Players = MapDelete(@, id),
                   !.pendingDeltas = LeaveDelta(@, id),
                   !.WinnerID = IF @ = SprintfV(<< id >>) THEN "" ELSE @]
    ELSE w

\* RemovePlayerResult without the test of line 247
RemovePlayerResult_Unguarded(w, id) ==
    [w EXCEPT !.Players = MapDelete(@, id),
              !.pendingDeltas = LeaveDelta(@, id)]

\* removePlayer, lines 247-256 (the channel is closed by the action)
RemovePlayerResult(w, id) ==
    IF id \in DOMAIN w.Players
    THEN [w EXCEPT !.Players = MapDelete(@, id),
                   !.pendingDeltas = LeaveDelta(@, id)]
    ELSE w

\* handlePlayerMove, lines 322-346, the winner loop visiting the map in `order`
GameOverResult(w, order) ==
    LET winnerID == WinnerString(w.WinnerID, Winners(w.Players, order))
    IN [w EXCEPT !.GameOver = TRUE,
                 !.WinnerID = winnerID,
                 !.pendingDeltas = GameOverDelta(@, winnerID)]

\* CollectResult leaving the collected item in the Items map
CollectResult_KeepItem(w, id, newPos, order) ==
    IF ItemAt(w.Items, newPos)
    THEN LET ps == CollectPlayers(w.Players, id)
         IN [w EXCEPT !.Players = ps,
                      !.pendingDeltas =
                          CollectDelta(@, id, ps[id].Score, ItemKey(newPos))]
    ELSE w

\* CollectResult with the game-over test of line 322 left out
CollectResult_NoGameOver(w, id, newPos, order) ==
    IF ItemAt(w.Items, newPos)
    THEN LET ps == CollectPlayers(w.Players, id)
         IN [w EXCEPT !.Players = ps,
                      !.Items = MapDelete(@, ItemKey(newPos)),
                      !.pendingDeltas =
                          CollectDelta(@, id, ps[id].Score, ItemKey(newPos))]
    ELSE w

\* handlePlayerMove, lines 306-347
CollectResult(w, id, newPos, order) ==
    IF ItemAt(w.Items, newPos)
    THEN LET ps == CollectPlayers(w.Players, id)
             collected ==
                 [w EXCEPT !.Players = ps,
                           !.Items = MapDelete(@, ItemKey(newPos)),
                           !.pendingDeltas =
                               CollectDelta(@, id, ps[id].Score, ItemKey(newPos))]
         IN IF DOMAIN collected.Items = {}
            THEN GameOverResult(collected, order)
            ELSE collected
    ELSE w

\* HandlePlayerMoveResult without the test of GameOver (lines 263-265)
HandlePlayerMoveResult_IgnoreGameOver(w, id, dir, order) ==
    IF id \notin DOMAIN w.Players \/ ~w.Players[id].IsActive THEN w
    ELSE IF dir \notin Directions THEN w
    ELSE LET oldPos == w.Players[id].Pos
             newPos == NewPos(oldPos, dir)
             moved == [w EXCEPT !.Players = MovePlayers(@, id, oldPos, newPos),
                                !.pendingDeltas = MoveDelta(@, id, oldPos, newPos)]
         IN CollectResult(moved, id, newPos, order)

\* handlePlayerMove, lines 263-347
HandlePlayerMoveResult(w, id, dir, order) ==
    IF w.GameOver THEN w
    ELSE IF id \notin DOMAIN w.Players \/ ~w.Players[id].IsActive THEN w
    ELSE IF dir \notin Directions THEN w
    ELSE LET oldPos == w.Players[id].Pos
             newPos == NewPos(oldPos, dir)
             moved == [w EXCEPT !.Players = MovePlayers(@, id, oldPos, newPos),
                                !.pendingDeltas = MoveDelta(@, id, oldPos, newPos)]
         IN CollectResult(moved, id, newPos, order)

SetWorld(w) ==
    /\ Players' = w.Players
    /\ Items' = w.Items
    /\ GameOver' = w.GameOver
    /\ WinnerID' = w.WinnerID
    /\ pendingDeltas' = w.pendingDeltas

---------------------------------------------------------------------------
\* gameLoop, lines 506-510
GameLoopAlloc ==
    /\ Running
    /\ mu = Nil
    /\ gl = "start"
    /\ allocated' = TRUE
    /\ Players' = EmptyMap
    /\ Items' = EmptyMap
    /\ pendingDeltas' = EmptyDeltas
    /\ gl' = "init"
    /\ last' = NoOp
    /\ UNCHANGED mutated
    /\ UNCHANGED <<GameOver, WinnerID, detached, deltasToSend, activePlayerChans, tickDropped,
                   connVars, chanVars, clientVars, auxVars, countVars>>
    /\ UNCHANGED lockVars

\* gameLoop, line 512: initializeItems
GameLoopInitializeItems ==
    /\ Running
    /\ mu = Nil
    /\ gl = "init"
    /\ \E s \in Placements(Players) : SetWorld(InitializeItemsResult(World, s))
    /\ gl' = "ticker"
    /\ mutated' = TRUE
    /\ last' = Op("initializeItems", "", "")
    /\ UNCHANGED <<allocated, detached, deltasToSend, activePlayerChans, tickDropped, connVars,
                   chanVars, clientVars, auxVars, countVars>>
    /\ UNCHANGED lockVars

\* gameLoop, lines 516-518, and broadcastUpdates, lines 460-479: the ticker
\* fires and the record is swapped out unless it is empty
Tick ==
    /\ Running
    /\ mu = Nil
    /\ gl = "ticker"
    /\ IF IsEmptyDeltas(pendingDeltas)
       THEN UNCHANGED <<pendingDeltas, deltasToSend, gl, tickDropped, mutated, nTicks>>
       ELSE /\ deltasToSend' = pendingDeltas
            /\ tickDropped' = {}
            /\ pendingDeltas' = EmptyDeltas
            /\ gl' = "collect"
            /\ mutated' = FALSE
            /\ nTicks' = nTicks + 1
    /\ last' = Op("tick", "", "")
    /\ UNCHANGED <<allocated, Players, Items, GameOver, WinnerID, detached,
                   activePlayerChans, connVars, chanVars, clientVars, auxVars, nMoves,
                   nResets>>
    /\ UNCHANGED lockVars

\* ActiveChans collecting every live entity's channel twice
ActiveChans_Twice(ps, order) ==
    LET act == {i \in 1..Len(order) : ps[order[i]].IsActive}
        nth(k) == CHOOSE i \in act : Cardinality({j \in act : j < i}) = k - 1
    IN [k \in 1..(2 * Cardinality(act)) |-> ConnOf(order[nth((k + 1) \div 2)])]

\* the channels collected by lines 483-487, in the order `order` of the range loop
ActiveChans(ps, order) ==
    LET act == {i \in 1..Len(order) : ps[order[i]].IsActive}
        nth(k) == CHOOSE i \in act : Cardinality({j \in act : j < i}) = k - 1
    IN [k \in 1..Cardinality(act) |-> ConnOf(order[nth(k)])]

\* broadcastUpdates, lines 481-488
BroadcastCollect ==
    /\ Running
    /\ mu = Nil
    /\ gl = "collect"
    /\ \E order \in Orders(DOMAIN Players) :
          /\ activePlayerChans' = ActiveChans(Players, order)
          /\ IF Len(order) = 0
             THEN gl' = "ticker" /\ deltasToSend' = EmptyDeltas
             ELSE gl' = "send" /\ UNCHANGED deltasToSend
    /\ last' = NoOp
    /\ UNCHANGED mutated
    /\ UNCHANGED <<tickDropped, worldVars, connVars, chanVars, clientVars, auxVars,
                   countVars>>
    /\ UNCHANGED lockVars

\* broadcastUpdates, lines 496-502: one iteration of the send loop
BroadcastSend ==
    /\ Running
    /\ gl = "send"
    /\ LET c == Head(activePlayerChans) IN
       IF chanClosed[c]
       THEN /\ Panic(GameLoopTask)
            /\ crashed' = TRUE
            /\ gl' = "panicked"
            /\ UNCHANGED <<activePlayerChans, deltasToSend, tickDropped, chanVars>>
       ELSE /\ Offer(c, DeltaMsg(deltasToSend))
            /\ tickDropped' = IF Len(sendChan[c]) < ChanCap
                               THEN tickDropped
                               ELSE tickDropped \cup {c}
            /\ activePlayerChans' = Tail(activePlayerChans)
            /\ IF Len(activePlayerChans) = 1
               THEN gl' = "ticker" /\ deltasToSend' = EmptyDeltas
               ELSE gl' = "send" /\ UNCHANGED deltasToSend
            /\ UNCHANGED <<panics, crashed>>
    /\ last' = NoOp
    /\ UNCHANGED mutated
    /\ UNCHANGED <<worldVars, connVars, clientVars, unlockedAccess, countVars>>
    /\ UNCHANGED lockVars

---------------------------------------------------------------------------
\* wsHandler, lines 402-413: a connection is accepted, addPlayer runs, and the
\* writer and the reader are started.  Ids are fresh, so connections are
\* numbered in the order they are accepted.  Writing to the nil Players map
\* panics (line 228); net/http recovers a handler's panic.
AddPlayer(c) ==
    /\ Running
    /\ mu = Nil
    /\ ws[c] = "none"
    /\ \A b \in Conns : b < c => ws[b] # "none"
    /\ connOpen' = [connOpen EXCEPT ![c] = TRUE]
    /\ IF ~allocated
       THEN /\ panics' = panics \cup
                   {[task |-> HandlerTask(c), err |-> "assignment to entry in nil map"]}
            /\ ws' = [ws EXCEPT ![c] = "panicked"]
            /\ last' = NoOp
            /\ UNCHANGED mutated
            /\ UNCHANGED <<Players, Items, GameOver, WinnerID, pendingDeltas, rd, wr>>
       ELSE /\ \E pos \in Cells :
                  /\ SpawnCellFree(Players, Items, pos)
                  /\ SetWorld(AddPlayerResult(World, PlayerID(c), pos))
            /\ ws' = [ws EXCEPT ![c] = "welcome"]
            /\ rd' = [rd EXCEPT ![c] = "read"]
            /\ wr' = [wr EXCEPT ![c] = "run"]
            /\ mutated' = TRUE
            /\ last' = Op("addPlayer", PlayerID(c), "")
            /\ UNCHANGED panics
    /\ UNCHANGED <<allocated, detached, loopVars, fullStatePayload, chanVars, clientVars,
                   crashed, unlockedAccess, countVars>>
    /\ UNCHANGED lockVars

\* wsHandler, lines 415-421
SendWelcome(c) ==
    /\ Running
    /\ ws[c] = "welcome"
    /\ IF chanClosed[c]
       THEN /\ Panic(HandlerTask(c))
            /\ ws' = [ws EXCEPT ![c] = "panicked"]
            /\ UNCHANGED chanVars
       ELSE /\ Offer(c, WelcomeMsg(PlayerID(c)))
            /\ ws' = [ws EXCEPT ![c] = "snapshot"]
            /\ UNCHANGED panics
    /\ last' = NoOp
    /\ UNCHANGED mutated
    /\ UNCHANGED <<worldVars, loopVars, fullStatePayload, rd, wr, connOpen, clientVars,
                   crashed, unlockedAccess, countVars>>
    /\ UNCHANGED lockVars

\* wsHandler, lines 423-444
Snapshot(c) ==
    /\ Running
    /\ mu = Nil
    /\ ws[c] = "snapshot"
    /\ fullStatePayload' = [fullStatePayload EXCEPT
                               ![c] = Ptr(FullStatePayload(Players, Items, GameOver,
                                                           WinnerID))]
    /\ ws' = [ws EXCEPT ![c] = "full_state"]
    /\ last' = NoOp
    /\ UNCHANGED mutated
    /\ UNCHANGED <<worldVars, loopVars, rd, wr, connOpen, chanVars, clientVars, auxVars,
                   countVars>>
    /\ UNCHANGED lockVars

\* wsHandler, lines 446-456
SendFullState(c) ==
    /\ Running
    /\ ws[c] = "full_state"
    /\ IF chanClosed[c]
       THEN /\ Panic(HandlerTask(c))
            /\ ws' = [ws EXCEPT ![c] = "panicked"]
            /\ UNCHANGED chanVars
       ELSE /\ Offer(c, FullStateMsg(fullStatePayload[c][1]))
            /\ ws' = [ws EXCEPT ![c] = "done"]
            /\ UNCHANGED panics
    /\ fullStatePayload' = [fullStatePayload EXCEPT ![c] = Nil]
    /\ last' = NoOp
    /\ UNCHANGED mutated
    /\ UNCHANGED <<worldVars, loopVars, rd, wr, connOpen, clientVars, crashed,
                   unlockedAccess, countVars>>
    /\ UNCHANGED lockVars

---------------------------------------------------------------------------
\* reader, lines 374-392: a "move" message is read and handlePlayerMove runs
HandlePlayerMove(c, dir) ==
    /\ Running
    /\ mu = Nil
    /\ rd[c] = "read" /\ connOpen[c]
    /\ \E order \in Orders(DOMAIN Players) :
          SetWorld(HandlePlayerMoveResult(World, PlayerID(c), dir, order))
    /\ nMoves' = nMoves + 1
    /\ mutated' = (mutated \/ Entities' # Entities)
    /\ last' = Op("handlePlayerMove", PlayerID(c), dir)
    /\ UNCHANGED <<allocated, detached, loopVars, connVars, chanVars, clientVars, auxVars,
                   nResets, nTicks>>
    /\ UNCHANGED lockVars

\* reader, lines 391-396: a message whose action is neither "move" nor
\* "reset_game_request" is read; no branch is taken
ReadUnknownAction(c) ==
    /\ Running
    /\ rd[c] = "read" /\ connOpen[c]
    /\ last' = Op("unknownAction", PlayerID(c), "")
    /\ UNCHANGED <<worldVars, loopVars, connVars, chanVars, clientVars, auxVars, mutated,
                   countVars>>
    /\ UNCHANGED lockVars

\* reader, line 393: a "reset_game_request" is read and game.GameOver is
\* tested without the lock; a request read while it is false is dropped
ReadReset(c) ==
    /\ Running
    /\ rd[c] = "read" /\ connOpen[c]
    /\ unlockedAccess' = unlockedAccess \cup {<<"reader", "GameOver">>}
    /\ rd' = [rd EXCEPT ![c] = IF GameOver THEN "reset" ELSE "read"]
    /\ last' = NoOp
    /\ UNCHANGED mutated
    /\ UNCHANGED <<worldVars, loopVars, ws, fullStatePayload, wr, connOpen, chanVars,
                   clientVars, panics, crashed, countVars>>
    /\ UNCHANGED lockVars

\* reader, line 395: initializeItems
ResetInitializeItems(c) ==
    /\ Running
    /\ mu = Nil
    /\ rd[c] = "reset"
    /\ nResets' = nResets + 1
    /\ \E s \in Placements(Players) : SetWorld(InitializeItemsResult(World, s))
    /\ rd' = [rd EXCEPT ![c] = "read"]
    /\ mutated' = TRUE
    /\ last' = Op("initializeItems", PlayerID(c), "")
    /\ UNCHANGED <<allocated, detached, loopVars, ws, fullStatePayload, wr, connOpen,
                   chanVars, clientVars, auxVars, nMoves, nTicks>>
    /\ UNCHANGED lockVars

\* reader, lines 375-382 and 367-370: the read fails (the client left, or the
\* connection was closed) and the deferred removePlayer runs, lines 243-257
RemovePlayer(c) ==
    /\ Running
    /\ mu = Nil
    /\ rd[c] = "read"
    /\ LET id == PlayerID(c) IN
       /\ SetWorld(RemovePlayerResult(World, id))
       /\ IF ClosesSendChan(World, id)
          THEN /\ detached' = MapPut(detached, id, [Players[id] EXCEPT !.IsActive = FALSE])
               /\ chanClosed' = [chanClosed EXCEPT ![c] = TRUE]
          ELSE UNCHANGED <<detached, chanClosed>>
       /\ mutated' = (mutated \/ id \in DOMAIN Players)
       /\ last' = Op("removePlayer", id, "")
    /\ rd' = [rd EXCEPT ![c] = "exit"]
    /\ UNCHANGED <<allocated, loopVars, ws, fullStatePayload, wr, connOpen, sendChan,
                   enqueued, accepted, dropped, clientVars, auxVars, countVars>>
    /\ UNCHANGED lockVars

---------------------------------------------------------------------------
\* Deliver taking the newest message of the buffer instead of the oldest
Deliver_Newest(c) ==
    /\ Running
    /\ wr[c] = "run" /\ Len(sendChan[c]) > 0
    /\ view' = [view EXCEPT ![c] = ApplyMessage(@, sendChan[c][Len(sendChan[c])])]
    /\ written' = [written EXCEPT ![c] = Append(@, sendChan[c][Len(sendChan[c])])]
    /\ sendChan' = [sendChan EXCEPT ![c] = SubSeq(@, 1, Len(@) - 1)]
    /\ last' = NoOp
    /\ UNCHANGED mutated
    /\ UNCHANGED <<worldVars, loopVars, connVars, chanClosed, enqueued, accepted, dropped,
                   auxVars, countVars>>
    /\ UNCHANGED lockVars

\* writer, lines 357-358: a message is received from sendChan and written to
\* the connection; the client's ws.onmessage applies it
Deliver(c) ==
    /\ Running
    /\ wr[c] = "run" /\ Len(sendChan[c]) > 0
    /\ view' = [view EXCEPT ![c] = ApplyMessage(@, Head(sendChan[c]))]
    /\ written' = [written EXCEPT ![c] = Append(@, Head(sendChan[c]))]
    /\ sendChan' = [sendChan EXCEPT ![c] = Tail(@)]
    /\ last' = NoOp
    /\ UNCHANGED mutated
    /\ UNCHANGED <<worldVars, loopVars, connVars, chanClosed, enqueued, accepted, dropped,
                   auxVars, countVars>>
    /\ UNCHANGED lockVars

\* writer, lines 358-361 and 352-353: the write fails; the writer returns and
\* closes the connection
WriteError(c) ==
    /\ Running
    /\ wr[c] = "run" /\ Len(sendChan[c]) > 0
    /\ sendChan' = [sendChan EXCEPT ![c] = Tail(@)]
    /\ wr' = [wr EXCEPT ![c] = "exit"]
    /\ connOpen' = [connOpen EXCEPT ![c] = FALSE]
    /\ last' = NoOp
    /\ UNCHANGED mutated
    /\ UNCHANGED <<worldVars, loopVars, ws, fullStatePayload, rd, chanClosed,
                   enqueued, accepted, dropped, clientVars, auxVars, countVars>>
    /\ UNCHANGED lockVars

\* writer, lines 357 and 352-353: sendChan is closed and drained; the range
\* loop ends and the connection is closed
WriterExit(c) ==
    /\ Running
    /\ wr[c] = "run" /\ Len(sendChan[c]) = 0 /\ chanClosed[c]
    /\ wr' = [wr EXCEPT ![c] = "exit"]
    /\ connOpen' = [connOpen EXCEPT ![c] = FALSE]
    /\ last' = NoOp
    /\ UNCHANGED mutated
    /\ UNCHANGED <<worldVars, loopVars, ws, fullStatePayload, rd, chanVars, clientVars,
                   auxVars, countVars>>
    /\ UNCHANGED lockVars

---------------------------------------------------------------------------
\* The retry loops of addPlayer and initializeItems, one draw per step.  The
\* task holds game.mu from the Lock before the loop to the deferred Unlock;
\* the writes of the critical section take effect in the step that ends it.

\* AddPlayerLock taking game.mu whether or not it is free
AddPlayerLock_Unguarded(c) ==
    /\ Running
    /\ allocated
    /\ ws[c] = "none"
    /\ \A b \in Conns : b < c => ws[b] # "none"
    /\ connOpen' = [connOpen EXCEPT ![c] = TRUE]
    /\ ws' = [ws EXCEPT ![c] = "spawn"]
    /\ mu' = HandlerTask(c)
    /\ last' = NoOp
    /\ UNCHANGED <<worldVars, loopVars, fullStatePayload, rd, wr, chanVars, clientVars,
                   auxVars, batch, mutated, countVars>>

\* wsHandler, lines 402-409, and addPlayer, lines 196-197: a connection is
\* accepted and addPlayer takes game.mu
AddPlayerLock(c) ==
    /\ Running
    /\ mu = Nil
    /\ allocated
    /\ ws[c] = "none"
    /\ \A b \in Conns : b < c => ws[b] # "none"
    /\ connOpen' = [connOpen EXCEPT ![c] = TRUE]
    /\ ws' = [ws EXCEPT ![c] = "spawn"]
    /\ mu' = HandlerTask(c)
    /\ last' = NoOp
    /\ UNCHANGED <<worldVars, loopVars, fullStatePayload, rd, wr, chanVars, clientVars,
                   auxVars, batch, mutated, countVars>>

\* addPlayer, lines 199-218: one iteration of the spawn loop draws pos; a
\* free cell ends the loop and lines 220-240 and wsHandler lines 411-412 run
AddPlayerDraw(c, pos) ==
    /\ Running
    /\ ws[c] = "spawn"
    /\ mu = HandlerTask(c)
    /\ IF SpawnCellFree(Players, Items, pos)
       THEN /\ SetWorld(AddPlayerResult(World, PlayerID(c), pos))
            /\ ws' = [ws EXCEPT ![c] = "welcome"]
            /\ rd' = [rd EXCEPT ![c] = "read"]
            /\ wr' = [wr EXCEPT ![c] = "run"]
            /\ mu' = Nil
            /\ mutated' = TRUE
            /\ last' = Op("addPlayer", PlayerID(c), "")
       ELSE UNCHANGED <<Players, Items, GameOver, WinnerID, pendingDeltas, ws, rd, wr, mu,
                        mutated, last>>
    /\ UNCHANGED <<allocated, detached, loopVars, fullStatePayload, connOpen, chanVars,
                   clientVars, auxVars, batch, countVars>>

\* PlaceOutcome accepting a cell on which an entity stands
PlaceOutcome_IgnoreEntities(pos) ==
    IF \E j \in DOMAIN batch : batch[j] = pos THEN "retry"
    ELSE IF Len(batch) + 1 < NumItems THEN "placed"
    ELSE "done"

\* initializeItems, lines 139-155: what the draw of pos does to the loop of
\* item number Len(batch)
PlaceOutcome(pos) ==
    IF ~ItemCellFree(Players, batch, pos) THEN "retry"
    ELSE IF Len(batch) + 1 < NumItems THEN "placed"
    ELSE "done"

\* gameLoop, line 512, and initializeItems, lines 129-130
GameLoopInitializeItemsLock ==
    /\ Running
    /\ mu = Nil
    /\ gl = "init"
    /\ gl' = "placing"
    /\ mu' = GameLoopTask
    /\ last' = NoOp
    /\ UNCHANGED <<worldVars, deltasToSend, activePlayerChans, tickDropped, connVars,
                   chanVars, clientVars, auxVars, batch, mutated, countVars>>

\* initializeItems called by gameLoop, lines 137-189: one draw of the
\* placement loop; the draw that places the last item ends the operation
GameLoopPlaceItem(pos) ==
    /\ Running
    /\ gl = "placing"
    /\ mu = GameLoopTask
    /\ CASE PlaceOutcome(pos) = "done" ->
               /\ SetWorld(InitializeItemsResult(World, Append(batch, pos)))
               /\ batch' = << >>
               /\ mu' = Nil
               /\ gl' = "ticker"
               /\ mutated' = TRUE
               /\ last' = Op("initializeItems", "", "")
         [] PlaceOutcome(pos) = "placed" ->
               /\ batch' = Append(batch, pos)
               /\ UNCHANGED <<Players, Items, GameOver, WinnerID, pendingDeltas, mu, gl,
                              mutated, last>>
         [] OTHER ->
               UNCHANGED <<Players, Items, GameOver, WinnerID, pendingDeltas, batch, mu, gl,
                           mutated, last>>
    /\ UNCHANGED <<allocated, detached, deltasToSend, activePlayerChans, tickDropped,
                   connVars, chanVars, clientVars, auxVars, countVars>>

\* the draws that the loops accept: rand.Intn returns every cell of the
\* board again and again
AddPlayerAccept(c) ==
    \E pos \in Cells : SpawnCellFree(Players, Items, pos) /\ AddPlayerDraw(c, pos)
GameLoopPlaceAccept ==
    \E pos \in Cells : ItemCellFree(Players, batch, pos) /\ GameLoopPlaceItem(pos)

---------------------------------------------------------------------------
\* The onboarding snapshot of the first delta-protocol iteration (src/main.go).
\* Its wsHandler copies the Player structs under game.mu but stores the
\* Items map itself in the payload (Items: game.Items), and json.Marshal walks
\* that map after the Unlock.

\* the map object game.Items refers to: the one gameLoop allocates, replaced
\* by every initializeItems (gs.Items = currentItems)
ItemsObject == IF gl \in {"start", "init"} THEN 0 ELSE 1 + nResets

\* what the map object a payload refers to holds now.  A map that
\* initializeItems has replaced keeps what it held; where no reader resets
\* the game the only such map is the empty one that gameLoop allocates.
SharedItems(payload) ==
    IF payload.itemsObject = ItemsObject THEN Items ELSE payload.itemsAtLock

\* src/main.go, wsHandler lines 363-379: the payload built under the lock;
\* itemsAtLock is what the shared map held at that instant
SharedPayload(ps, items, gameOver, winnerID) ==
    [players |-> [id \in {i \in DOMAIN ps : ps[i].IsActive} |-> MarshalPlayer(ps[id])],
     itemsObject |-> ItemsObject,
     itemsAtLock |-> items,
     gameOver |-> gameOver,
     winnerId |-> OmitEmpty(winnerID)]

\* json.Marshal of the payload with the collectibles `items`
MarshalShared(payload, items) ==
    [players |-> payload.players,
     items |-> [k \in DOMAIN items |-> MarshalItem(items[k])],
     boardWidth |-> BoardWidth,
     boardHeight |-> BoardHeight,
     gameOver |-> payload.gameOver,
     winnerId |-> payload.winnerId]

\* src/main.go, wsHandler lines 362-381
SnapshotShared(c) ==
    /\ Running
    /\ mu = Nil
    /\ ws[c] = "snapshot"
    /\ fullStatePayload' = [fullStatePayload EXCEPT
                               ![c] = Ptr(SharedPayload(Players, Items, GameOver, WinnerID))]
    /\ ws' = [ws EXCEPT ![c] = "marshal"]
    /\ last' = NoOp
    /\ UNCHANGED mutated
    /\ UNCHANGED <<worldVars, loopVars, rd, wr, connOpen, chanVars, clientVars, auxVars,
                   countVars>>
    /\ UNCHANGED lockVars

\* src/main.go, wsHandler line 384: json.Marshal starts to walk the payload,
\* the shared map included, without game.mu
MarshalStart(c) ==
    /\ Running
    /\ ws[c] = "marshal"
    /\ fullStatePayload' = [fullStatePayload EXCEPT
                               ![c] = Ptr([seen |-> SharedItems(@[1]), payload |-> @[1]])]
    /\ ws' = [ws EXCEPT ![c] = "marshalling"]
    /\ unlockedAccess' = unlockedAccess \cup {<<"wsHandler", "Items">>}
    /\ last' = NoOp
    /\ UNCHANGED mutated
    /\ UNCHANGED <<worldVars, loopVars, rd, wr, connOpen, chanVars, clientVars, panics,
                   crashed, countVars>>
    /\ UNCHANGED lockVars

\* src/main.go, wsHandler line 384: json.Marshal returns.  A delete on the
\* map during the walk is a data race: the walk has seen the map as it was
\* before or after the delete, or the runtime has detected the concurrent
\* map iteration and map write and ended the process.
MarshalEnd(c) ==
    /\ Running
    /\ ws[c] = "marshalling"
    /\ LET m == fullStatePayload[c][1]
           now == SharedItems(m.payload)
       IN \/ /\ \E items \in {m.seen, now} :
                    fullStatePayload' =
                        [fullStatePayload EXCEPT ![c] = Ptr(MarshalShared(m.payload, items))]
             /\ ws' = [ws EXCEPT ![c] = "full_state"]
             /\ UNCHANGED <<panics, crashed>>
          \/ /\ now # m.seen
             /\ panics' = panics \cup
                   {[task |-> HandlerTask(c),
                     err |-> "concurrent map iteration and map write"]}
             /\ crashed' = TRUE
             /\ ws' = [ws EXCEPT ![c] = "panicked"]
             /\ UNCHANGED fullStatePayload
    /\ last' = NoOp
    /\ UNCHANGED mutated
    /\ UNCHANGED <<worldVars, loopVars, rd, wr, connOpen, chanVars, clientVars,
                   unlockedAccess, countVars>>
    /\ UNCHANGED lockVars

---------------------------------------------------------------------------
Next ==
    \/ GameLoopAlloc
    \/ GameLoopInitializeItems
    \/ ((nTicks < MaxTicks \/ ~mutated) /\ Tick)
    \/ BroadcastCollect
    \/ BroadcastSend
    \/ \E c \in 1..MaxConns : AddPlayer(c)
    \/ \E c \in Conns : SendWelcome(c)
    \/ \E c \in Conns : Snapshot(c)
    \/ \E c \in Conns : SendFullState(c)
    \/ \E c \in Conns, dir \in SentDirections :
          nMoves < MaxMoves /\ HandlePlayerMove(c, dir)
    \/ \E c \in Conns : ReadReset(c)
    \/ \E c \in Conns : nResets < MaxResets /\ ResetInitializeItems(c)
    \/ \E c \in Conns : RemovePlayer(c)
    \/ \E c \in Conns : Deliver(c)
    \/ \E c \in Conns : WriteError(c)
    \/ \E c \in Conns : WriterExit(c)

Spec == Init /\ [][Next]_vars

\* The mutation operations alone: the ticker, the handlers' sends and the
\* writers are not scheduled.
NextWorld ==
    \/ GameLoopAlloc
    \/ GameLoopInitializeItems
    \/ \E c \in 1..WorldConns : AddPlayer(c)
    \/ \E c \in Conns, dir \in SentDirections :
          nMoves < WorldMoves /\ HandlePlayerMove(c, dir)
    \/ \E c \in Conns : ReadReset(c)
    \/ \E c \in Conns : nResets < WorldResets /\ ResetInitializeItems(c)
    \/ \E c \in Conns : ReadUnknownAction(c)
    \/ \E c \in Conns : RemovePlayer(c)

SpecWorld == Init /\ [][NextWorld]_vars

\* The mailboxes of two connections whose writers never drain them: joins,
\* departures, the ticker and the handlers' sends.
NextMailbox ==
    \/ GameLoopAlloc
    \/ GameLoopInitializeItems
    \/ ((nTicks < MailTicks \/ ~mutated) /\ Tick)
    \/ BroadcastCollect
    \/ BroadcastSend
    \/ \E c \in 1..MailConns : AddPlayer(c)
    \/ \E c \in Conns : SendWelcome(c)
    \/ \E c \in Conns : Snapshot(c)
    \/ \E c \in Conns : SendFullState(c)
    \/ \E c \in Conns : RemovePlayer(c)

SpecMailbox == Init /\ [][NextMailbox]_vars

\* One connection through several ticks: the join, moves, the ticker, the
\* handler's sends, the writer and the departure; no reset requests.
NextDelivery ==
    \/ GameLoopAlloc
    \/ GameLoopInitializeItems
    \/ ((nTicks < DeliveryTicks \/ ~mutated) /\ Tick)
    \/ BroadcastCollect
    \/ BroadcastSend
    \/ \E c \in 1..DeliveryConns : AddPlayer(c)
    \/ \E c \in Conns : SendWelcome(c)
    \/ \E c \in Conns : Snapshot(c)
    \/ \E c \in Conns : SendFullState(c)
    \/ \E c \in Conns, dir \in SentDirections :
          nMoves < DeliveryMoves /\ HandlePlayerMove(c, dir)
    \/ \E c \in Conns : RemovePlayer(c)
    \/ \E c \in Conns : Deliver(c)
    \/ \E c \in Conns : WriteError(c)
    \/ \E c \in Conns : WriterExit(c)

SpecDelivery == Init /\ [][NextDelivery]_vars

\* reader, lines 374-382: ReadMessage on a connection that has been closed
\* returns an error, and the deferred removePlayer runs
ReadFails(c) == ~connOpen[c] /\ RemovePlayer(c)

\* Two connections up to their cleanup: joins, the welcome, the ticker, the
\* writers' failures and exits and the departures.  A reader whose connection
\* is closed gets its read error and runs removePlayer.
NextCleanup ==
    \/ GameLoopAlloc
    \/ GameLoopInitializeItems
    \/ ((nTicks < CleanupTicks \/ ~mutated) /\ Tick)
    \/ BroadcastCollect
    \/ BroadcastSend
    \/ \E c \in 1..CleanupConns : AddPlayer(c)
    \/ \E c \in Conns : SendWelcome(c)
    \/ \E c \in Conns : RemovePlayer(c)
    \/ \E c \in Conns : WriteError(c)
    \/ \E c \in Conns : WriterExit(c)

SpecCleanup ==
    /\ Init
    /\ [][NextCleanup]_vars
    /\ \A c \in Conns : WF_vars(ReadFails(c))

\* Two connections with their writers running: joins, the welcome, the
\* ticker, the writers' deliveries, failures and exits and the departures.
\* A transport write returns, and a writer whose mailbox is closed and
\* drained leaves its range loop.
NextDrain ==
    \/ GameLoopAlloc
    \/ GameLoopInitializeItems
    \/ ((nTicks < DrainTicks \/ ~mutated) /\ Tick)
    \/ BroadcastCollect
    \/ BroadcastSend
    \/ \E c \in 1..DrainConns : AddPlayer(c)
    \/ \E c \in Conns : SendWelcome(c)
    \/ \E c \in Conns : RemovePlayer(c)
    \/ \E c \in Conns : Deliver(c)
    \/ \E c \in Conns : WriteError(c)
    \/ \E c \in Conns : WriterExit(c)

SpecDrain ==
    /\ Init
    /\ [][NextDrain]_vars
    /\ \A c \in Conns : WF_vars(Deliver(c) \/ WriteError(c))
    /\ \A c \in Conns : WF_vars(WriterExit(c))

\* Joins, the welcome, a move and departures of three connections with the
\* retry loops of addPlayer and of gameLoop's initializeItems run draw by
\* draw: the board can fill up.
\* The random source returns every cell again and again, so a loop that
\* has a cell it accepts draws it.
NextPlacement ==
    \/ GameLoopAlloc
    \/ GameLoopInitializeItemsLock
    \/ \E pos \in Cells : GameLoopPlaceItem(pos)
    \/ \E c \in 1..PlaceConns : AddPlayerLock(c)
    \/ \E c \in Conns, pos \in Cells : AddPlayerDraw(c, pos)
    \/ \E c \in 1..PlaceWelcomes : SendWelcome(c)
    \/ \E c \in Conns, dir \in SentDirections :
          nMoves < PlaceMoves /\ HandlePlayerMove(c, dir)
    \/ \E c \in Conns : RemovePlayer(c)

SpecPlacement ==
    /\ Init
    /\ [][NextPlacement]_vars
    /\ WF_vars(GameLoopPlaceAccept)
    /\ \A c \in Conns : WF_vars(AddPlayerAccept(c))

\* The onboarding of src/main.go: joins, the welcome, the snapshot that
\* shares the Items map, its serialization and enqueue, and moves; no reader
\* resets the game.
NextSharedItems ==
    \/ GameLoopAlloc
    \/ GameLoopInitializeItems
    \/ \E c \in 1..SharedConns : AddPlayer(c)
    \/ \E c \in Conns : SendWelcome(c)
    \/ \E c \in Conns : SnapshotShared(c)
    \/ \E c \in Conns : MarshalStart(c)
    \/ \E c \in Conns : MarshalEnd(c)
    \/ \E c \in Conns : SendFullState(c)
    \/ \E c \in Conns, dir \in SentDirections :
          nMoves < SharedMoves /\ HandlePlayerMove(c, dir)

SpecSharedItems == Init /\ [][NextSharedItems]_vars

\* The end of a game: joins, moves, the ticker and departures of two
\* connections, without the handlers' sends, the writers and the resets.
NextEndgame ==
    \/ GameLoopAlloc
    \/ GameLoopInitializeItems
    \/ ((nTicks < EndTicks \/ ~mutated) /\ Tick)
    \/ BroadcastCollect
    \/ BroadcastSend
    \/ \E c \in 1..EndConns : AddPlayer(c)
    \/ \E c \in Conns, dir \in SentDirections :
          /\ nMoves < EndMoves \/ (GameOver /\ nMoves < EndMoves + EndFrozenMoves)
          /\ HandlePlayerMove(c, dir)
    \/ \E c \in Conns : RemovePlayer(c)

SpecEndgame == Init /\ [][NextEndgame]_vars

---------------------------------------------------------------------------
\* Definitions shared by the properties.

NoItems == DOMAIN Items = {}

\* the state the latest operation ran in
Before == last.before[1]
Moved == last.op = "handlePlayerMove"

\* the live entities of ps with the maximum score
MaxScoreIds(ps) ==
    {id \in DOMAIN ps :
        /\ ps[id].IsActive
        /\ \A j \in DOMAIN ps : ps[j].IsActive => ps[j].Score <= ps[id].Score}

\* the direction points off the board from pos
OffBoard(pos, dir) ==
    \/ dir = "up" /\ pos.Y = 0
    \/ dir = "down" /\ pos.Y = BoardHeight - 1
    \/ dir = "left" /\ pos.X = 0
    \/ dir = "right" /\ pos.X = BoardWidth - 1

\* the latest step was a handlePlayerMove of a live entity into a wall
WallMove ==
    /\ Moved
    /\ last.id \in DOMAIN Before.Players
    /\ Before.Players[last.id].IsActive
    /\ OffBoard(Before.Players[last.id].Pos, last.direction)

\* the Pos field of id's entry in PlayersUpdated, Nil when there is none
PendingPos(pd, id) ==
    IF id \in DOMAIN pd.PlayersUpdated THEN pd.PlayersUpdated[id].Pos ELSE Nil

\* the client's view of connection c equals World State
ViewMatches(c) ==
    /\ DOMAIN view[c].players = DOMAIN Players
    /\ \A id \in DOMAIN Players :
          /\ view[c].players[id].pos = Players[id].Pos
          /\ view[c].players[id].score = Players[id].Score
    /\ DOMAIN view[c].items = DOMAIN Items
    /\ \A k \in DOMAIN Items : view[c].items[k].pos = Items[k].Pos
    /\ view[c].gameOver = GameOver
    /\ view[c].winnerId = OmitEmpty(WinnerID)

\* connection c is a live observer that has applied everything sent to it:
\* its onboarding is complete, nothing was dropped or lost, its mailbox is
\* drained, and no flush is pending or in flight
Synchronized(c) ==
    /\ PlayerID(c) \in DOMAIN Players
    /\ ws[c] = "done"
    /\ wr[c] = "run"
    /\ ~dropped[c]
    /\ sendChan[c] = << >>
    /\ IsEmptyDeltas(pendingDeltas)
    /\ gl = "ticker"

---------------------------------------------------------------------------
\* C1 (as claimed): once gameLoop has started, whenever game.mu is free,
\* GameOver is true if and only if the Items map is empty.
C1_GameOverIffNoItems == allocated => (GameOver <=> NoItems)

\* C1 (amended): once gameLoop's first initializeItems has completed,
\* whenever game.mu is free, GameOver is true if and only if Items is empty.
C1_GameOverIffNoItemsAfterInit == gl \notin {"start", "init"} => (GameOver <=> NoItems)

\* C1 witness: a move collected the last item and the game is over.
C1_Witness == Moved /\ GameOver /\ NoItems /\ ~Before.GameOver

\* C2: on every mailbox the messages are enqueued in the order welcome,
\* full_state, delta_update: no delta_update precedes the full_state and no
\* full_state precedes the welcome.
C2_OnboardingOrder ==
    \A c \in Conns : \A i \in DOMAIN enqueued[c] :
        /\ enqueued[c][i] = "delta_update" =>
              \E j \in 1..(i - 1) : enqueued[c][j] = "full_state"
        /\ enqueued[c][i] = "full_state" =>
              \E j \in 1..(i - 1) : enqueued[c][j] = "welcome"

\* C3: the Broadcast Scheduler never sends on a closed mailbox, so
\* broadcastUpdates never panics and the process is never ended by it.
C3_SchedulerNeverFaults ==
    /\ ~crashed
    /\ \A p \in panics : p.task # GameLoopTask

\* C4: an observer whose mailbox never overflowed and that has applied its
\* full_state and every delta_update enqueued to it, with the Change Record
\* empty, holds a view equal to World State.
C4_SynchronizedView == \A c \in Conns : Synchronized(c) => ViewMatches(c)

\* C5: a reader's initializeItems never runs on a World State whose GameOver
\* is false.
C5_ResetOnlyWhenGameOver ==
    (last.op = "initializeItems" /\ last.id # "") => Before.GameOver

\* C6: no World State field is read or written by a task that does not hold
\* game.mu.
C6_AllAccessUnderLock == unlockedAccess = {}

\* C7: when handlePlayerMove removes the last collectible, GameOver is set,
\* WinnerID names exactly the live entities with the maximum score (in some
\* order), and the pending gameStatus entry records the same winner.
C7_WinnersAreMaxScore ==
    (Moved /\ ~Before.GameOver /\ DOMAIN Before.Items # {} /\ NoItems) =>
        /\ GameOver
        /\ WinnerID \in {SprintfV(o) : o \in Orders(MaxScoreIds(Players))}
        /\ pendingDeltas.GameStatus = Ptr([GameOver |-> TRUE, WinnerID |-> WinnerID])

\* C7 witness: the last collectible was taken and two entities tie for the
\* maximum score.
C7_Witness ==
    /\ Moved /\ ~Before.GameOver /\ NoItems
    /\ Cardinality(MaxScoreIds(Players)) = 2

\* C8: every live entity's position is on the board.
C8_PositionsOnBoard ==
    \A id \in DOMAIN Players :
        /\ 0 <= Players[id].Pos.X /\ Players[id].Pos.X < BoardWidth
        /\ 0 <= Players[id].Pos.Y /\ Players[id].Pos.Y < BoardHeight

\* C8 witness: two entities are live and a move has just changed a position.
C8_Witness ==
    /\ Moved
    /\ Cardinality(DOMAIN Players) = 2
    /\ last.id \in DOMAIN Players
    /\ Players[last.id].Pos # Before.Players[last.id].Pos

\* C9: a handlePlayerMove pointing off the board leaves the entity's position
\* unchanged and neither creates nor modifies the Pos field of its entry in
\* pendingDeltas.PlayersUpdated.
C9_WallMoveKeepsPosition ==
    WallMove =>
        /\ Players[last.id].Pos = Before.Players[last.id].Pos
        /\ PendingPos(pendingDeltas, last.id) = PendingPos(Before.pendingDeltas, last.id)

\* C9 witness: a wall move was handled during play, with no pending position
\* for the entity before it.
C9_Witness ==
    /\ WallMove /\ ~Before.GameOver
    /\ PendingPos(Before.pendingDeltas, last.id) = Nil

\* C10: a handlePlayerMove pointing off the board changes nothing: no score,
\* no collectible, not GameOver or the winner, and nothing in the Change Record.
C10_WallMoveIsNoOp == WallMove => World = Before

\* C10 witness: a wall move was handled during play while collectibles
\* remained and another entity was live.
C10_Witness ==
    /\ WallMove /\ ~Before.GameOver
    /\ DOMAIN Items # {}
    /\ Cardinality(DOMAIN Players) = 2

\* C11: initializeItems applied after game-over leaves GameOver false, the
\* winner empty, every live entity's score 0 and Items holding exactly
\* NumItems collectibles, all of the new batch item_0..item_(NumItems-1) that
\* the record lists as added; the live entities and their positions are as
\* they were.
C11_ResetPostcondition ==
    (last.op = "initializeItems" /\ Before.GameOver) =>
        /\ ~GameOver
        /\ WinnerID = ""
        /\ \A id \in DOMAIN Players : Players[id].Score = 0
        /\ Cardinality(DOMAIN Items) = NumItems
        /\ {Items[k] : k \in DOMAIN Items} = Range(pendingDeltas.ItemsAdded)
        /\ {Items[k].ID : k \in DOMAIN Items} = {ItemID(i) : i \in 0..(NumItems - 1)}
        /\ \A k \in DOMAIN Items : k = ItemKey(Items[k].Pos)
        /\ DOMAIN Players = DOMAIN Before.Players
        /\ \A id \in DOMAIN Players : Players[id].Pos = Before.Players[id].Pos

\* C11 witness: a reader reset a finished game in which two entities were
\* live and one of them had scored.
C11_Witness ==
    /\ last.op = "initializeItems" /\ Before.GameOver
    /\ Cardinality(DOMAIN Players) = 2
    /\ \E id \in DOMAIN Before.Players : Before.Players[id].Score > 0

\* client views with any set of stale collectibles and either game status
StaleViews ==
    {[InitialView EXCEPT
         !.items = [k \in {ItemKey(pos) : pos \in S} |->
                       [id |-> "stale", pos |-> CHOOSE pos \in S : ItemKey(pos) = k]],
         !.gameOver = g] : S \in SUBSET Cells, g \in BOOLEAN}

\* the view v holds the server's collectibles and game-over flag
ItemsAndStatusMatch(v) ==
    /\ DOMAIN v.items = DOMAIN Items
    /\ \A k \in DOMAIN Items : v.items[k] = MarshalItem(Items[k])
    /\ v.gameOver = GameOver

\* the tick of the latest step flushed a record whose window contains an
\* initializeItems
FlushedReset == last.op = "tick" /\ gl = "collect" /\ Len(deltasToSend.ItemsAdded) > 0

\* C12: when a tick flushes a record whose window contains a reset, a client
\* applying that delta_update to any earlier view ends with the collectible
\* set of the Items map and with the server's GameOver, also when collections
\* or a game-over followed the reset within the window.
C12_ResetDeltaReplacesItems ==
    FlushedReset =>
        \A v \in StaleViews : ItemsAndStatusMatch(ApplyMessage(v, DeltaMsg(deltasToSend)))

\* C12 witness: the flushed window holds a reset followed by a collection.
C12_Witness ==
    /\ FlushedReset
    /\ Len(deltasToSend.ItemsRemoved) > 0
    /\ DOMAIN Items # {}

EnqueueStep(c) ==
    \/ SendWelcome(c)
    \/ SendFullState(c)
    \/ (BroadcastSend /\ Head(activePlayerChans) = c)

\* every task that has reached an enqueue, the ticker and a joining
\* connection's addPlayer can take their step at once, whatever the
\* mailboxes hold
NothingWaitsForAMailbox ==
    /\ gl = "send" => ENABLED BroadcastSend
    /\ gl = "ticker" => ENABLED Tick
    /\ \A c \in Conns :
          /\ ws[c] = "welcome" => ENABLED SendWelcome(c)
          /\ ws[c] = "full_state" => ENABLED SendFullState(c)
          /\ (allocated /\ ws[c] = "none" /\ \A b \in Conns : b < c => ws[b] # "none") =>
                ENABLED AddPlayer(c)

\* C14: no mailbox ever holds more than ChanCap messages; with writers that
\* never drain, every enqueue, tick and addPlayer that a task has reached can
\* be taken at once; and an enqueue onto a full mailbox returns (no panic)
\* with the new message dropped and the queued messages and their order
\* unchanged.
C14_EnqueueNeverBlocks ==
    /\ [](\A c \in Conns : Len(sendChan[c]) <= ChanCap)
    /\ [](Running => NothingWaitsForAMailbox)
    /\ [][\A c \in Conns :
            (EnqueueStep(c) /\ Len(sendChan[c]) = ChanCap) =>
                /\ sendChan'[c] = sendChan[c]
                /\ accepted'[c] = accepted[c]
                /\ dropped'[c]
                /\ panics' = panics]_vars

\* a recipient of the tick in progress whose mailbox the send loop found, or
\* will find, full
FullRecipient ==
    \E b \in Conns :
        \/ b \in tickDropped
        \/ gl = "send" /\ b \in Range(activePlayerChans) /\ Len(sendChan[b]) = ChanCap

\* C15: a publishing tick collects the mailbox of every live entity, and
\* when one recipient's mailbox is full each send of the loop still returns
\* and goes on to the next recipient: a recipient with room gets exactly the
\* tick's delta_update, a full one is left as it was, and no other mailbox
\* is touched.
C15_DropAffectsOneRecipient ==
    /\ [][BroadcastCollect =>
             Range(activePlayerChans') = {ConnOf(id) : id \in DOMAIN Players}]_vars
    /\ [][(BroadcastSend /\ FullRecipient) =>
             LET c == Head(activePlayerChans) IN
             /\ panics' = panics
             /\ activePlayerChans' = Tail(activePlayerChans)
             /\ sendChan'[c] = IF Len(sendChan[c]) < ChanCap
                               THEN Append(sendChan[c], DeltaMsg(deltasToSend))
                               ELSE sendChan[c]
             /\ \A b \in Conns \ {c} : sendChan'[b] = sendChan[b]]_vars

\* the messages the mailbox of c accepted, and the ticks of its delta_updates
AcceptedMsgs(c) == [i \in DOMAIN accepted[c] |-> accepted[c][i].msg]
DeltaIndexes(c) == {i \in DOMAIN accepted[c] : accepted[c][i].msg.type = "delta_update"}

\* C16: what a writer has written to its connection is, message for message,
\* the beginning of what its mailbox accepted (no reordering, duplication or
\* omission); while the writer runs, the written messages followed by the
\* buffered ones are all the accepted ones; and the delta_updates a mailbox
\* accepted come from strictly increasing ticks.
C16_DeliveryKeepsEnqueueOrder ==
    \A c \in Conns :
        /\ Len(written[c]) <= Len(accepted[c])
        /\ written[c] = SubSeq(AcceptedMsgs(c), 1, Len(written[c]))
        /\ wr[c] = "run" => written[c] \o sendChan[c] = AcceptedMsgs(c)
        /\ \A i, j \in DeltaIndexes(c) : i < j => accepted[c][i].tick < accepted[c][j].tick

\* C16 witness: a writer has written the welcome, the full_state and the
\* different delta_updates of two ticks.
C16_Witness ==
    \E c \in Conns :
        /\ Len(written[c]) = 4
        /\ Cardinality(DeltaIndexes(c)) = 2
        /\ written[c][3] # written[c][4]

\* the ids of all connections, and the number of removal entries for id
AllIDs == {PlayerID(c) : c \in Conns}
RemovalEntries(pd, id) == Cardinality({i \in DOMAIN pd.PlayersRemoved : pd.PlayersRemoved[i] = id})

\* C17: once removePlayer(id) has run, the entity is gone, its mailbox is
\* closed and one removal entry is recorded; running removePlayer(id) again
\* changes neither World State nor the Change Record and closes nothing, and
\* so does a handlePlayerMove for that id run in between; removePlayer of an
\* id that is not live changes nothing and closes nothing.
C17_RemovePlayerIdempotent ==
    /\ last.op = "removePlayer" =>
          /\ last.id \notin DOMAIN Players
          /\ chanClosed[ConnOf(last.id)]
          /\ RemovalEntries(pendingDeltas, last.id) = 1
          /\ RemovePlayerResult(World, last.id) = World
          /\ ~ClosesSendChan(World, last.id)
          /\ \A dir \in SentDirections, order \in Orders(DOMAIN Players) :
                LET moved == HandlePlayerMoveResult(World, last.id, dir, order)
                IN /\ moved = World
                   /\ RemovePlayerResult(moved, last.id) = World
                   /\ ~ClosesSendChan(moved, last.id)
    /\ \A id \in AllIDs \ DOMAIN Players :
          /\ RemovePlayerResult(World, id) = World
          /\ ~ClosesSendChan(World, id)

\* C17 witness: removePlayer removed a live entity while another entity
\* stayed and collectibles remained.
C17_Witness ==
    /\ last.op = "removePlayer"
    /\ last.id \in DOMAIN Before.Players
    /\ DOMAIN Players # {}
    /\ ~GameOver

\* the writer of connection c has returned on a write error while its
\* entity is live
WriteFailed(c) == wr[c] = "exit" /\ ~connOpen[c] /\ PlayerID(c) \in DOMAIN Players

\* removePlayer has run for the entity of connection c
Removed(c) == PlayerID(c) \notin DOMAIN Players /\ chanClosed[c] /\ rd[c] = "exit"

\* C18: when the writer of a live entity fails to write, removePlayer is
\* eventually executed for the entity: it leaves the live map and its
\* mailbox is closed.
C18_WriteFailureLeadsToRemoval == \A c \in Conns : WriteFailed(c) ~> Removed(c)

\* the step is an initializeItems, of gameLoop or of a reader
InitializeItemsStep == last'.op = "initializeItems"

\* C19: no score is negative; a step of initializeItems leaves every live
\* entity's score 0, and any other step leaves the score of an entity that
\* stays live unchanged or greater by exactly 1.
C19_ScoresMonotonic ==
    /\ [](\A id \in DOMAIN Players : Players[id].Score >= 0)
    /\ [][\A id \in (DOMAIN Players) \cap (DOMAIN Players') :
            IF InitializeItemsStep
            THEN Players'[id].Score = 0
            ELSE Players'[id].Score \in {Players[id].Score, Players[id].Score + 1}]_vars

\* C19 witness: after a reset, in the new episode, a move raised a score
\* from 0 to 1 while another entity was live.
C19_Witness ==
    /\ Moved /\ nResets > 0
    /\ last.id \in DOMAIN Players
    /\ Before.Players[last.id].Score = 0
    /\ Players[last.id].Score = 1
    /\ Cardinality(DOMAIN Players) = 2

\* the latest step handled an invalid intent: a move while the game was
\* over, for an id that was not live, or in no direction of the board, or a
\* message with an unknown action
InvalidMove ==
    /\ Moved
    /\ \/ Before.GameOver
       \/ last.id \notin DOMAIN Before.Players
       \/ last.direction \notin Directions
InvalidIntent == InvalidMove \/ last.op = "unknownAction"

\* the step handles a move or a message with an unknown action, valid or not
IntentStep == last'.op \in {"handlePlayerMove", "unknownAction"}

\* C20: an invalid intent leaves World State and the Change Record as they
\* were; so would a handlePlayerMove for an id that is not live; and the
\* step that handles an intent leaves every mailbox as it was and raises no
\* panic.
C20_InvalidIntentsIgnored ==
    /\ [](InvalidIntent => World = Before)
    /\ [](\A id \in AllIDs \ DOMAIN Players :
             \A dir \in SentDirections, order \in Orders(DOMAIN Players) :
                 HandlePlayerMoveResult(World, id, dir, order) = World)
    /\ [][IntentStep => UNCHANGED <<chanVars, panics, crashed>>]_vars

\* C20 witness: a move in a direction of the board, away from the walls,
\* was ignored because the game was over, with two entities live.
C20_Witness ==
    /\ Moved /\ Before.GameOver
    /\ last.id \in DOMAIN Before.Players
    /\ last.direction \in Directions
    /\ ~OffBoard(Before.Players[last.id].Pos, last.direction)
    /\ Cardinality(DOMAIN Players) = 2

\* the delta_update entries that the mailbox of c accepted from tick k
TickEntries(c, k) == {i \in DeltaIndexes(c) : accepted[c][i].tick = k}

\* the step is the flush of a non-empty Change Record
FlushStep == last'.op = "tick" /\ ~IsEmptyDeltas(pendingDeltas)

\* the step is the scheduler's collection of the mailboxes
CollectStep == gl = "collect" /\ gl' # "collect"

\* C22: the flush of a non-empty Change Record takes the whole record,
\* leaves a fresh empty one and touches no mailbox; the collection takes
\* each entity live at that moment exactly once; a mailbox accepts at most
\* one delta_update of a tick, only as the recipient at the head of the
\* collected list; and every delta_update of a tick, whatever the
\* recipient, is the serialization of the record that tick swapped out.
C22_OneDeltaPerTickPerMailbox ==
    /\ [][FlushStep =>
             /\ deltasToSend' = pendingDeltas
             /\ pendingDeltas' = EmptyDeltas
             /\ UNCHANGED <<Entities, chanVars>>]_vars
    /\ [][CollectStep =>
             /\ Range(activePlayerChans') = {ConnOf(id) : id \in DOMAIN Players}
             /\ Len(activePlayerChans') = Cardinality(DOMAIN Players)]_vars
    /\ [][\A c \in Conns :
             Cardinality(DeltaIndexes(c))' > Cardinality(DeltaIndexes(c)) =>
                 gl = "send" /\ c = Head(activePlayerChans)]_vars
    /\ [](\A c \in Conns : \A k \in 1..nTicks : Cardinality(TickEntries(c, k)) <= 1)
    /\ [](\A c, d \in Conns : \A i \in DeltaIndexes(c), j \in DeltaIndexes(d) :
             accepted[c][i].tick = accepted[d][j].tick =>
                 accepted[c][i].msg = accepted[d][j].msg)
    /\ [](gl = "send" =>
             \A c \in Conns : \A i \in TickEntries(c, nTicks) :
                 accepted[c][i].msg = DeltaMsg(deltasToSend))

\* C22 witness: the mailboxes of two entities each accepted the
\* delta_update of the same tick, whose record held both their joins.
C22_Witness ==
    /\ \A c \in 1..2 : TickEntries(c, 1) # {}
    /\ DOMAIN accepted[1][CHOOSE i \in TickEntries(1, 1) : TRUE].msg.payload.playersUpdated
           = {PlayerID(1), PlayerID(2)}

\* s is the beginning of t
IsPrefix(s, t) == Len(s) <= Len(t) /\ SubSeq(t, 1, Len(s)) = s

\* everything the record pd holds is still in the record qd, except the
\* pending update of the ids in `gone`
RecordKept(pd, qd, gone) ==
    /\ IsPrefix(pd.PlayersRemoved, qd.PlayersRemoved)
    /\ IsPrefix(pd.ItemsRemoved, qd.ItemsRemoved)
    /\ pd.GameStatus # Nil => qd.GameStatus # Nil
    /\ \A id \in (DOMAIN pd.PlayersUpdated) \ gone :
          /\ id \in DOMAIN qd.PlayersUpdated
          /\ pd.PlayersUpdated[id].Pos # Nil => qd.PlayersUpdated[id].Pos # Nil
          /\ pd.PlayersUpdated[id].Score # Nil => qd.PlayersUpdated[id].Score # Nil

\* C23: a step that is not the scheduler's flush discards nothing from the
\* Change Record: the removals of entities and of collectibles recorded so
\* far stay in their order, a recorded status change stays, and every
\* pending entity update keeps the fields it has; the only exception is the
\* pending update of the id that removePlayer removes in that step.
C23_RecordKeptUntilFlush ==
    [][last'.op # "tick" =>
          RecordKept(pendingDeltas, pendingDeltas',
                     IF last'.op = "removePlayer" THEN {last'.id} ELSE {})]_vars

\* C24: whenever game.mu is free, every entry of pendingDeltas.PlayersUpdated
\* is filed under its own id, belongs to a live entity, and a Pos or Score it
\* carries is that entity's current position or score.
C24_PendingUpdatesAreCurrent ==
    \A id \in DOMAIN pendingDeltas.PlayersUpdated :
        LET d == pendingDeltas.PlayersUpdated[id] IN
        /\ d.ID = id
        /\ id \in DOMAIN Players
        /\ d.Pos # Nil => d.Pos[1] = Players[id].Pos
        /\ d.Score # Nil => d.Score[1] = Players[id].Score

\* C24 witness: in the window after a reset an entity moved twice, its
\* pending update carrying the position of the second move and the score of
\* a collection, while another entity is live.
C24_Witness ==
    /\ Moved /\ nResets > 0
    /\ last.id \in DOMAIN pendingDeltas.PlayersUpdated
    /\ PendingPos(Before.pendingDeltas, last.id) # Nil
    /\ PendingPos(pendingDeltas, last.id) # PendingPos(Before.pendingDeltas, last.id)
    /\ pendingDeltas.PlayersUpdated[last.id].Score = Ptr(1)
    /\ Cardinality(DOMAIN Players) = 2

\* the latest step was a removePlayer of an entity that was live
RemovedLive == last.op = "removePlayer" /\ last.id \in DOMAIN Before.Players

\* C25: removePlayer of a live id takes the entity out of the Players map
\* with IsActive false on its struct, appends the id to PlayersRemoved and
\* deletes its entry of PlayersUpdated, so that the record, as a
\* delta_update, names the id as removed and not as updated; the other
\* entities, their pending updates, the rest of the record, the Items map
\* and the game status are as they were.  At no later point of the window
\* does the record hold an update for an id it lists as removed.
C25_RemovePlayerEffect ==
    /\ \A id \in Range(pendingDeltas.PlayersRemoved) :
          id \notin DOMAIN pendingDeltas.PlayersUpdated
    /\ RemovedLive =>
        LET id == last.id
            pd == pendingDeltas
            bd == Before.pendingDeltas
        IN /\ DOMAIN Players = (DOMAIN Before.Players) \ {id}
           /\ \A j \in DOMAIN Players : Players[j] = Before.Players[j]
           /\ id \in DOMAIN detached /\ ~detached[id].IsActive
           /\ pd.PlayersRemoved = Append(bd.PlayersRemoved, id)
           /\ DOMAIN pd.PlayersUpdated = (DOMAIN bd.PlayersUpdated) \ {id}
           /\ \A j \in DOMAIN pd.PlayersUpdated : pd.PlayersUpdated[j] = bd.PlayersUpdated[j]
           /\ pd.ItemsAdded = bd.ItemsAdded
           /\ pd.ItemsRemoved = bd.ItemsRemoved
           /\ pd.GameStatus = bd.GameStatus
           /\ <<Items, GameOver, WinnerID>> = <<Before.Items, Before.GameOver, Before.WinnerID>>
           /\ id \in Range(DeltaMsg(pd).payload.playersRemoved)
           /\ id \notin DOMAIN DeltaMsg(pd).payload.playersUpdated

\* C25 witness: an entity whose join was still pending left, while another
\* entity with a pending update stayed.
C25_Witness ==
    /\ RemovedLive
    /\ last.id \in DOMAIN Before.pendingDeltas.PlayersUpdated
    /\ Before.pendingDeltas.PlayersUpdated[last.id].Pos # Nil
    /\ DOMAIN pendingDeltas.PlayersUpdated # {}
    /\ DOMAIN Items # {}

\* the latest step was an addPlayer that returned
Joined == last.op = "addPlayer"

\* C26: an addPlayer that returns has added one entity to the Players map:
\* live, with score 0, with an open and empty mailbox, on a cell of the
\* board where, in the state addPlayer ran in, no entity stood and no
\* collectible lay; the record has gained exactly the entry of that id,
\* carrying that position and score 0; every other entity, the Items map,
\* GameOver and WinnerID are as they were.
C26_AddPlayerEffect ==
    Joined =>
        LET id == last.id
            c == ConnOf(last.id)
            pd == pendingDeltas
            bd == Before.pendingDeltas
        IN /\ id \notin DOMAIN Before.Players
           /\ DOMAIN Players = (DOMAIN Before.Players) \cup {id}
           /\ \A j \in DOMAIN Before.Players : Players[j] = Before.Players[j]
           /\ Players[id].ID = id /\ Players[id].Score = 0 /\ Players[id].IsActive
           /\ Players[id].Pos \in Cells
           /\ \A j \in DOMAIN Before.Players : Before.Players[j].Pos # Players[id].Pos
           /\ \A k \in DOMAIN Before.Items : Before.Items[k].Pos # Players[id].Pos
           /\ sendChan[c] = << >> /\ ~chanClosed[c]
           /\ pd.PlayersUpdated =
                  MapPut(bd.PlayersUpdated, id,
                         [ID |-> id, Pos |-> Ptr(Players[id].Pos), Score |-> Ptr(0)])
           /\ [pd EXCEPT !.PlayersUpdated = << >>] = [bd EXCEPT !.PlayersUpdated = << >>]
           /\ <<Items, GameOver, WinnerID>> = <<Before.Items, Before.GameOver, Before.WinnerID>>

\* C26 witness: an entity joined a board holding another entity and a
\* collectible, after moves and a collection.
C26_Witness ==
    /\ Joined
    /\ Cardinality(DOMAIN Players) = 2
    /\ Cardinality(DOMAIN Items) = 1
    /\ \E j \in DOMAIN Before.Players : Before.Players[j].Score = 1

\* the collectibles lie on pairwise different cells
ItemsApart == \A k, m \in DOMAIN Items : k # m => Items[k].Pos # Items[m].Pos

\* C27: in every state no two collectibles share a position and each is
\* stored under the key of its own position; after an initializeItems the
\* Items map holds exactly NumItems collectibles, all on the board, none
\* on the cell of a live entity.
C27_ItemsPlacedApart ==
    /\ ItemsApart
    /\ \A k \in DOMAIN Items : k = ItemKey(Items[k].Pos)
    /\ last.op = "initializeItems" =>
          /\ Cardinality(DOMAIN Items) = NumItems
          /\ Cardinality({Items[k].Pos : k \in DOMAIN Items}) = NumItems
          /\ \A k \in DOMAIN Items : Items[k].Pos \in Cells
          /\ \A k \in DOMAIN Items, id \in DOMAIN Players :
                Items[k].Pos # Players[id].Pos

\* C27 witness: a reader's reset placed the collectibles while two
\* entities stood on different cells.
C27_Witness ==
    /\ last.op = "initializeItems" /\ last.id # ""
    /\ Cardinality({Players[id].Pos : id \in DOMAIN Players}) = 2

\* the latest step was a handlePlayerMove that changed the position of its
\* entity
Stepped ==
    /\ Moved
    /\ last.id \in DOMAIN Before.Players
    /\ last.id \in DOMAIN Players
    /\ Players[last.id].Pos # Before.Players[last.id].Pos

\* the record pd with the entry of id taken out
WithoutEntry(pd, id) == [pd EXCEPT !.PlayersUpdated = MapDelete(@, id)]

\* C28: a handlePlayerMove leaves every other entity as it was.  When it
\* moves its entity onto a cell holding a collectible, the score grows by
\* exactly 1, exactly that collectible leaves the Items map, the entity's
\* pending update carries the new position and the new score, and the
\* collectible's key is appended to ItemsRemoved.  When it moves its entity
\* onto a cell with no collectible, only the position and the Pos of the
\* pending update change.
C28_MoveAndCollect ==
    /\ Moved =>
          /\ DOMAIN Players = DOMAIN Before.Players
          /\ \A j \in (DOMAIN Players) \ {last.id} : Players[j] = Before.Players[j]
    /\ Stepped =>
          LET id == last.id
              pos == Players[id].Pos
              key == ItemKey(pos)
              pd == pendingDeltas
              bd == Before.pendingDeltas
          IN /\ pos = NewPos(Before.Players[id].Pos, last.direction)
             /\ pd.PlayersUpdated[id].Pos = Ptr(pos)
             /\ IF \E k \in DOMAIN Before.Items : Before.Items[k].Pos = pos
                THEN /\ Players[id].Score = Before.Players[id].Score + 1
                     /\ DOMAIN Items = (DOMAIN Before.Items) \ {key}
                     /\ Cardinality(DOMAIN Items) = Cardinality(DOMAIN Before.Items) - 1
                     /\ \A k \in DOMAIN Items : Items[k] = Before.Items[k]
                     /\ pd.PlayersUpdated[id].Score = Ptr(Players[id].Score)
                     /\ pd.ItemsRemoved = Append(bd.ItemsRemoved, key)
                ELSE /\ Players[id] = [Before.Players[id] EXCEPT !.Pos = pos]
                     /\ <<Items, GameOver, WinnerID>> =
                            <<Before.Items, Before.GameOver, Before.WinnerID>>
                     /\ pd.PlayersUpdated[id].Score = DeltaFor(bd, id).Score
                     /\ WithoutEntry(pd, id) = WithoutEntry(bd, id)

\* C28 witness: with two entities live, a move took a collectible while
\* another collectible remained.
C28_Witness ==
    /\ Stepped
    /\ Players[last.id].Score = Before.Players[last.id].Score + 1
    /\ DOMAIN Items # {}
    /\ Cardinality(DOMAIN Players) = 2

\* removePlayer has closed the mailbox of c and its writer is running
ClosedWithWriter(c) == chanClosed[c] /\ wr[c] = "run"

\* C30: once removePlayer has closed a mailbox, nothing more is accepted
\* into it; its writer forwards the messages still queued, oldest first,
\* and then terminates; a terminated writer writes nothing; and the step
\* in which that writer terminates leaves every other entity's writer and
\* mailbox as they were.
C30_ClosedMailboxEndsWriter ==
    /\ \A c \in Conns : ClosedWithWriter(c) ~> (wr[c] = "exit")
    /\ [][\A c \in Conns :
             /\ chanClosed[c] => accepted'[c] = accepted[c]
             /\ wr[c] = "exit" => written'[c] = written[c]
             /\ (ClosedWithWriter(c) /\ written'[c] # written[c]) =>
                    written'[c] = Append(written[c], Head(sendChan[c]))
             /\ (ClosedWithWriter(c) /\ wr'[c] # wr[c]) =>
                    \A b \in Conns \ {c} :
                        <<wr'[b], sendChan'[b], written'[b]>> =
                            <<wr[b], sendChan[b], written[b]>>]_vars

\* the cells on which no entity stands, and whether addPlayer has a cell
\* to spawn on
EntityFreeCells == {pos \in Cells : \A id \in DOMAIN Players : Players[id].Pos # pos}
SpawnFree == \E pos \in Cells : SpawnCellFree(Players, Items, pos)

\* a task is inside the retry loop of addPlayer or of initializeItems
InAddPlayer(c) == ws[c] = "spawn"
InInitializeItems == gl = "placing"

\* a retry loop runs on a board that has no cell for it
Saturated ==
    \/ \E c \in Conns : InAddPlayer(c) /\ ~SpawnFree
    \/ InInitializeItems /\ Cardinality(EntityFreeCells) < NumItems

\* an operation that takes game.mu can start
LockedOperationEnabled ==
    \/ \E c \in Conns, dir \in SentDirections : ENABLED HandlePlayerMove(c, dir)
    \/ \E c \in Conns : ENABLED RemovePlayer(c)
    \/ \E c \in Conns : ENABLED Snapshot(c)
    \/ \E c \in Conns : ENABLED AddPlayerLock(c)
    \/ \E c \in Conns : ENABLED ResetInitializeItems(c)
    \/ ENABLED GameLoopInitializeItemsLock
    \/ ENABLED Tick

\* C29: with a random source that returns every cell again and again,
\* addPlayer leaves its spawn loop whenever some cell holds no entity and no
\* collectible, and initializeItems leaves its placement loop whenever at
\* least NumItems cells hold no entity; game.mu is held from one step to the
\* next only by a task inside one of these loops; and a loop on a board that
\* has no cell for it stays in the loop with game.mu held and World State
\* unchanged, so that no operation that takes game.mu can start.
C29_PlacementTermination ==
    /\ \A c \in Conns : (InAddPlayer(c) /\ SpawnFree) ~> ~InAddPlayer(c)
    /\ (InInitializeItems /\ Cardinality(EntityFreeCells) >= NumItems) ~> ~InInitializeItems
    /\ [](mu # Nil <=> (InInitializeItems \/ \E c \in Conns : InAddPlayer(c)))
    /\ [](Saturated => ~LockedOperationEnabled)
    /\ [][Saturated => (Saturated' /\ mu' = mu /\ World' = World)]_vars

\* C29 witness: addPlayer spins on a full board holding game.mu while the
\* ticker has a record to flush, the readers of two live entities wait for
\* their next message and a handler has reached its snapshot.
C29_Witness ==
    /\ \E c \in Conns : InAddPlayer(c) /\ ~SpawnFree
    /\ gl = "ticker" /\ ~IsEmptyDeltas(pendingDeltas)
    /\ Cardinality({c \in Conns : rd[c] = "read" /\ PlayerID(c) \in DOMAIN Players}) = 2
    /\ \E c \in Conns : ws[c] = "snapshot"

\* C21: game.mu is held from one step to the next only by gameLoop inside
\* the placement loop of initializeItems or by a handler inside the spawn
\* loop of addPlayer, never by a task waiting for the ticker, for a
\* transport read or write or for a mailbox; it changes hands only through
\* being free; a handler that has reached its welcome can send it at once,
\* whoever holds game.mu; and whenever game.mu is held on a board that has
\* a cell for the loop, it is released, with no step of any client needed.
C21_LockDiscipline ==
    /\ [](mu \in {Nil, GameLoopTask} \cup {HandlerTask(c) : c \in Conns})
    /\ [](mu = GameLoopTask => gl = "placing")
    /\ [](\A c \in Conns : mu = HandlerTask(c) => ws[c] = "spawn")
    /\ [][mu' # mu => (mu = Nil \/ mu' = Nil)]_vars
    /\ [](Running => \A c \in Conns : ws[c] = "welcome" => ENABLED SendWelcome(c))
    /\ (mu # Nil /\ ~Saturated) ~> (mu = Nil)

\* C21 witness: a handler holds game.mu in its spawn loop on a board with a
\* free cell while another handler is about to send its welcome and a
\* reader waits for its next message.
C21_Witness ==
    /\ \E c \in Conns : mu = HandlerTask(c) /\ SpawnFree
    /\ \E c \in Conns : ws[c] = "welcome"
    /\ \E c \in Conns : rd[c] = "read"
    /\ gl = "ticker"

\* the payload of connection c, not yet serialized, refers to the map that
\* is game.Items
SharesItems(c) ==
    /\ ws[c] \in {"marshal", "marshalling"}
    /\ (IF ws[c] = "marshal" THEN fullStatePayload[c][1]
        ELSE fullStatePayload[c][1].payload).itemsObject = ItemsObject

\* the step ends the serialization of the full_state of connection c
Marshalled(c) == ws[c] = "marshalling" /\ ws'[c] # "marshalling"

\* C31: what wsHandler serializes after releasing game.mu is a copy: no
\* payload still to be serialized refers to the map that is game.Items, the
\* serialization never races with a mutation, and the serialized full_state
\* is World State as it was at the instant of the snapshot, whatever
\* operations ran in between.
C31_SnapshotIsACopy ==
    /\ [](\A c \in Conns : ~SharesItems(c))
    /\ [][\A c \in Conns : Marshalled(c) =>
             LET p == fullStatePayload[c][1].payload IN
             /\ ~crashed'
             /\ fullStatePayload'[c] = Ptr(MarshalShared(p, p.itemsAtLock))]_vars

\* the send of a handler on its own mailbox has faulted
HandlerSendFaults ==
    {p \in panics : p.task[1] = "wsHandler" /\ p.err = "send on closed channel"}

\* C32: wsHandler never sends on a mailbox that removePlayer has closed:
\* when the newcomer's reader has removed the entity before the welcome or
\* the full_state is enqueued, the handler raises no fault and runs to its
\* end.
C32_OnboardingSkipsClosedMailbox ==
    /\ HandlerSendFaults = {}
    /\ \A c \in Conns : chanClosed[c] => ws[c] # "panicked"

\* the latest step was a handlePlayerMove of a live entity, in a valid
\* direction during play, that left the entity where it was
StoodStill ==
    /\ Moved /\ ~Before.GameOver
    /\ last.direction \in Directions
    /\ last.id \in DOMAIN Before.Players
    /\ Players[last.id].Pos = Before.Players[last.id].Pos

\* C33: whenever game.mu is free, no live entity stands on the cell of a
\* collectible; hence a handlePlayerMove that does not change the position
\* collects nothing: the Items map, every score and ItemsRemoved are as they
\* were.
C33_NoEntityOnCollectible ==
    /\ \A id \in DOMAIN Players, k \in DOMAIN Items : Items[k].Pos # Players[id].Pos
    /\ \A id \in DOMAIN Players : ~ItemAt(Items, Players[id].Pos)
    /\ StoodStill =>
          /\ Items = Before.Items
          /\ \A id \in DOMAIN Players : Players[id].Score = Before.Players[id].Score
          /\ pendingDeltas.ItemsRemoved = Before.pendingDeltas.ItemsRemoved

\* C33 witness: an entity that has collected a collectible bumps into the
\* wall on the cell where it lay, next to the remaining collectible, while
\* another entity is live.
C33_Witness ==
    /\ StoodStill
    /\ Players[last.id].Score = 1
    /\ Cardinality(DOMAIN Items) = 1
    /\ Cardinality(DOMAIN Players) = 2
    /\ \E dir \in Directions : ItemAt(Items, NewPos(Players[last.id].Pos, dir))

\* the sum of the scores of the live entities of ps
RECURSIVE SumScores(_, _)
SumScores(ps, ids) ==
    IF ids = {} THEN 0
    ELSE LET id == CHOOSE i \in ids : TRUE
         IN ps[id].Score + SumScores(ps, ids \ {id})
TotalScore(ps) == SumScores(ps, {id \in DOMAIN ps : ps[id].IsActive})

\* an episode has begun and no entity has been removed during it: with no
\* flush scheduled, the record lists every removal since the latest
\* initializeItems
EpisodeWithoutRemoval == gl = "ticker" /\ Len(pendingDeltas.PlayersRemoved) = 0

\* C34: whenever game.mu is free, the scores of the live entities and the
\* collectibles of the Items map add up to at most NumItems, and to exactly
\* NumItems in an episode during which no entity has been removed; a
\* handlePlayerMove takes at most one collectible, and the one it takes is
\* credited, as one point, to its own entity and to no other.
C34_ScoreConservation ==
    /\ TotalScore(Players) + Cardinality(DOMAIN Items) <= NumItems
    /\ EpisodeWithoutRemoval =>
          TotalScore(Players) + Cardinality(DOMAIN Items) = NumItems
    /\ Moved =>
          LET taken == Cardinality(DOMAIN Before.Items) - Cardinality(DOMAIN Items)
              gained == {id \in DOMAIN Players :
                            Players[id].Score # Before.Players[id].Score}
          IN /\ taken \in {0, 1}
             /\ TotalScore(Players) = TotalScore(Before.Players) + taken
             /\ gained = IF taken = 1 THEN {last.id} ELSE {}

\* C34 witness: in an episode begun by a reader's reset, with no removal,
\* two entities have taken one collectible each and the game is over.
C34_Witness ==
    /\ Moved /\ GameOver /\ nResets > 0
    /\ EpisodeWithoutRemoval
    /\ Cardinality(DOMAIN Players) = 2
    /\ \A id \in DOMAIN Players : Players[id].Score = 1

\* C35: while GameOver is true, a step that is not an initializeItems (a
\* move intent, a tick, a send, a join, a leave) leaves GameOver, the winner
\* designation and the empty Items map as they are and changes no entity's
\* position or score; a join adds only its own entity, with score 0, a
\* leave removes only its own entity, and every other step keeps the set of
\* live entities.
C35_FrozenWhileGameOver ==
    [][(GameOver /\ last'.op # "initializeItems") =>
          /\ GameOver'
          /\ WinnerID' = WinnerID
          /\ DOMAIN Items = {} /\ Items' = Items
          /\ \A id \in (DOMAIN Players) \cap (DOMAIN Players') : Players'[id] = Players[id]
          /\ DOMAIN Players' =
                CASE last'.op = "addPlayer" -> (DOMAIN Players) \cup {last'.id}
                  [] last'.op = "removePlayer" -> (DOMAIN Players) \ {last'.id}
                  [] OTHER -> DOMAIN Players
          /\ last'.op = "addPlayer" => Players'[last'.id].Score = 0]_vars

\* C35 witness: after the game-over status was flushed, the single winner
\* left a finished game in which another entity stays, and is still the
\* winner designated.
C35_Witness ==
    /\ last.op = "removePlayer" /\ Before.GameOver /\ GameOver
    /\ last.id \in DOMAIN Before.Players
    /\ WinnerID = SprintfV(<< last.id >>)
    /\ DOMAIN Players # {}
    /\ nTicks > 0 /\ pendingDeltas.GameStatus = Nil

\* C36: whenever game.mu is free, the winner designation is non-empty if and
\* only if GameOver is true; the move that ends a game is the move of a live
\* entity, so the designation then names at least one entity, all of them
\* live at that instant; and initializeItems clears GameOver and the
\* designation together.
C36_WinnerIffGameOver ==
    /\ (WinnerID # "") <=> GameOver
    /\ GameOver => WinnerID # SprintfV(<< >>)
    /\ (Moved /\ GameOver /\ ~Before.GameOver) =>
          /\ last.id \in DOMAIN Players
          /\ \E ids \in (SUBSET DOMAIN Players) \ {{}} :
                WinnerID \in {SprintfV(o) : o \in Orders(ids)}
    /\ last.op = "initializeItems" => (~GameOver /\ WinnerID = "")

\* C36 witness: in an episode begun by a reader's reset, a move ended the
\* game and designated its own entity alone, another entity being live.
C36_Witness ==
    /\ Moved /\ GameOver /\ ~Before.GameOver /\ nResets > 0
    /\ WinnerID = SprintfV(<< last.id >>)
    /\ Before.WinnerID = ""
    /\ Cardinality(DOMAIN Players) = 2

\* the step runs addPlayer, handlePlayerMove, removePlayer or the onboarding
\* snapshot
WorldOperationStep ==
    \/ \E c \in Conns : ws[c] = "none" /\ ws'[c] # "none"
    \/ \E c \in Conns : ws[c] = "snapshot" /\ ws'[c] # "snapshot"
    \/ last' # last /\ last'.op \in {"addPlayer", "handlePlayerMove", "removePlayer"}

\* gameLoop has completed its first initializeItems
Started == gl \notin {"start", "init"}

\* C37: addPlayer, handlePlayerMove, removePlayer and the onboarding snapshot
\* run only after gameLoop has allocated the maps and the record and
\* completed its first initializeItems; gameLoop's allocation runs before
\* any connection is accepted, and no operation faults on a map that is not
\* yet allocated.
C37_StartupOrdering ==
    /\ [][WorldOperationStep => Started]_vars
    /\ [][(gl = "start" /\ gl' # "start") => \A c \in Conns : ws[c] = "none"]_vars
    /\ [](\A p \in panics : p.err # "assignment to entry in nil map")

\* C38: whenever game.mu is free, every key of pendingDeltas.PlayersUpdated
\* is the id of an entity of the Players map, no id of PlayersRemoved is in
\* the Players map, no id is in both, and PlayersRemoved lists no id twice.
C38_RecordIdsConsistent ==
    LET updated == DOMAIN pendingDeltas.PlayersUpdated
        removed == pendingDeltas.PlayersRemoved
    IN /\ updated \subseteq DOMAIN Players
       /\ Range(removed) \cap DOMAIN Players = {}
       /\ updated \cap Range(removed) = {}
       /\ \A i, j \in DOMAIN removed : removed[i] = removed[j] => i = j

\* C38 witness: in the window of a reader's reset one entity left, with
\* its pending update, and the other then moved: the record lists the
\* one as removed and only the other as updated.
C38_Witness ==
    /\ Moved /\ nResets > 0
    /\ Len(pendingDeltas.PlayersRemoved) = 1
    /\ DOMAIN pendingDeltas.PlayersUpdated = {last.id}
    /\ pendingDeltas.PlayersUpdated[last.id].Pos # Nil
    /\ Len(pendingDeltas.ItemsAdded) > 0

\* the position keys of the collectibles listed in ItemsAdded
AddedKeys(pd) == {ItemKey(pd.ItemsAdded[i].Pos) : i \in DOMAIN pd.ItemsAdded}

\* the record lists a batch of collectibles consistently
BatchConsistent(pd) ==
    Len(pd.ItemsAdded) > 0 =>
        /\ pd.GameStatus # Nil
        /\ Len(pd.ItemsAdded) = NumItems
        /\ Range(pd.ItemsRemoved) \subseteq AddedKeys(pd)

\* the collectibles a client holds after applying the record to any view
ItemsAfterApplying(pd) ==
    ClientItemsRemoved(ClientItemsAdded(EmptyMap, DeltaMsg(pd).payload.itemsAdded),
                       DeltaMsg(pd).payload.itemsRemoved)

\* C39: in the pending and in the flushed record, a non-empty ItemsAdded
\* comes with a game-status entry, has exactly NumItems elements, and holds
\* the position of every key of ItemsRemoved; applying itemsAdded and then
\* itemsRemoved of the pending record gives exactly the collectibles of the
\* Items map.
C39_ItemsAddedConsistent ==
    /\ BatchConsistent(pendingDeltas)
    /\ BatchConsistent(deltasToSend)
    /\ Len(pendingDeltas.ItemsAdded) > 0 =>
          /\ DOMAIN ItemsAfterApplying(pendingDeltas) = DOMAIN Items
          /\ \A k \in DOMAIN Items :
                ItemsAfterApplying(pendingDeltas)[k] = MarshalItem(Items[k])

\* C39 witness: the record being sent holds a batch and the key of one
\* collectible of it, and the key of a second one is already pending.
C39_Witness ==
    /\ gl = "send"
    /\ Len(deltasToSend.ItemsAdded) = NumItems
    /\ Len(deltasToSend.ItemsRemoved) = 1
    /\ Len(pendingDeltas.ItemsRemoved) = 1

\* the ids of the entities that addPlayer has created
Created == {PlayerID(c) : c \in {b \in Conns : rd[b] # "none"}}

\* C40: whenever game.mu is free, an entity that addPlayer has created is in
\* the Players map if and only if its IsActive flag is true and its mailbox
\* is open: the entities of the map are active with an open mailbox, the
\* removed ones are inactive with a closed mailbox, and no removed entity
\* is in the map again.
C40_LiveIffActiveAndOpen ==
    /\ Created = (DOMAIN Players) \cup (DOMAIN detached)
    /\ (DOMAIN Players) \cap (DOMAIN detached) = {}
    /\ \A id \in DOMAIN Players :
          Players[id].ID = id /\ Players[id].IsActive /\ ~chanClosed[ConnOf(id)]
    /\ \A id \in DOMAIN detached :
          ~detached[id].IsActive /\ chanClosed[ConnOf(id)]
    /\ \A c \in Conns : chanClosed[c] => PlayerID(c) \in DOMAIN detached

\* C40 witness: an entity has joined after another one left: the newcomer
\* is alone in the map and the leaver's struct is inactive.
C40_Witness ==
    /\ Joined
    /\ Cardinality(DOMAIN detached) = 1
    /\ DOMAIN Players = {last.id}
    /\ \E id \in DOMAIN detached : ConnOf(id) < ConnOf(last.id)

=============================================================================
